---- MODULE Spec2Model ----
(***************************************************************************)
(* Verification model of the highway traffic acquisition pipeline:         *)
(*   - the fetch/decompress layer   (FreewayDataCollector.download_file)   *)
(*   - the per-date slice driver    (download_vd_data, download_etag_data, *)
(*                                   download_all_data_for_date)           *)
(*   - the worker pool              (download_multiple_dates)              *)
(*   - the directory importer       (HighwayDataImporter.import_vd_data)   *)
(*   - the XML record extractors    (parse_vd_xml, parse_etag_xml,         *)
(*                                   process_vd_file_to_db,                *)
(*                                   TaiwanETagDataConverter.parse_xml_files) *)
(*   - the training-set builder     (TaiwanETagDataConverter:              *)
(*                                   _create_etag_dict, create_train_data) *)
(* Each part has its own specification over the shared variable list; the  *)
(* variables of the other parts stay at their initial value.               *)
(***************************************************************************)
EXTENDS Integers, Sequences, FiniteSets, TLC

VARIABLES
    fs,         \* file system: path -> bytes, for the files that exist
    dirs,       \* directories that exist (os.makedirs)
    call,       \* the last download_file call: its arguments and the response
    ret,        \* what that call returned
    cfg,        \* the collector's run parameters (use_db, is_temp, max_workers, data_types)
    dates,      \* the dates handed to download_multiple_dates
    queue,      \* the executor's work queue: dates submitted and not yet started
    task,       \* per date: the state of its download_all_data_for_date task
    log,        \* per date: the slices attempted so far, in order
    lastWrite,  \* the date and the paths written by the latest slice step
    db,         \* the store: row key -> number of rows committed
    collected,  \* dates whose future the main thread has consumed
    total_files,\* download_multiple_dates' accumulator
    mainPc,     \* the main thread: "idle", "collecting", "returned"
    folder,     \* a date folder on disk: file name -> document
    listing,    \* the file names in the order os.listdir / glob returned them
    ipc,        \* where the folder pass stands: "idle", "start", "files", "done"
    ipos,       \* how many files of the listing have been processed
    vd_data,    \* the rows of the importer's vd_data table, in insert order
    total_rows, \* import_vd_data's total_rows
    all_data,   \* parse_xml_files' all_data list
    xml_file,   \* the file name handed to an extraction function
    xml_doc,    \* the document handed to an extraction function
    parsed,     \* the function applied last and the rows it produced
    etag_info,  \* the reference table: the native identifier of each row
    idx,        \* how many reference rows _create_etag_dict has indexed
    etag_dict,  \* the identifier index, entries in insertion order
    flow_data,  \* create_train_data's flow_data frame with its station_id column
    printed,    \* the messages the loader has printed
    result_df,  \* the frame create_train_data returned and wrote to train.csv
    tpc,        \* where the loader stands: "idle", "index", "ready", "done"
    conns,      \* how many database connections are open
    load_ret,   \* the last store operation: its batch, what it returned, and how
                \* many connections it opened
    init_db,    \* what init_database returned: "none" while it has not run
    etag_data,  \* the rows of the pair table (etag_data for the importer,
                \* etag_travel_time for the collector)
    static_files, \* the mapping download_static_data returned
    requests    \* the resources download_static_data has requested, in order

fetchVars == <<call, ret>>

poolVars == <<cfg, dates, queue, task, log, lastWrite, db, collected, total_files, mainPc>>

xmlVars ==
    <<folder, listing, ipc, ipos, vd_data, total_rows, all_data, xml_file, xml_doc, parsed>>

trainVars == <<etag_info, idx, etag_dict, flow_data, printed, result_df, tpc>>

storeVars == <<conns, load_ret, init_db, etag_data>>

staticVars == <<static_files, requests>>

vars == <<fs, dirs, call, ret, cfg, dates, queue, task, log, lastWrite, db, collected,
          total_files, mainPc, folder, listing, ipc, ipos, vd_data, total_rows, all_data,
          xml_file, xml_doc, parsed, etag_info, idx, etag_dict,
          flow_data, printed, result_df, tpc, conns, load_ret, init_db,
          etag_data, static_files, requests>>

(***************************************************************************)
(* Bytes and gzip.  A byte is a symbol; a gzip member is the magic header, *)
(* the payload and the end-of-stream trailer.                              *)
(***************************************************************************)
MaxPayload == 1

PayloadByte == {"a"}

SeqUpTo(S, n) == UNION {[1..k -> S] : k \in 0..n}

Payloads == SeqUpTo(PayloadByte, MaxPayload)

GzipCompress(data) == <<"magic">> \o data \o <<"eos">>

\* gzip.open(path).read(): an empty file reads as b'' without error, a file
\* without the magic header raises BadGzipFile, a member cut before its
\* trailer raises EOFError.
GzipRead(b) ==
    IF b = <<>> THEN [ok |-> TRUE, data |-> <<>>]
    ELSE IF b[1] # "magic" THEN [ok |-> FALSE, data |-> <<>>]
    ELSE IF Len(b) < 2 \/ b[Len(b)] # "eos" THEN [ok |-> FALSE, data |-> <<>>]
    ELSE [ok |-> TRUE, data |-> SubSeq(b, 2, Len(b) - 1)]

\* The response bodies the server may send: a payload as it is, its gzip
\* member, and a gzip member cut short.
Bodies ==
    Payloads
    \cup {GzipCompress(p) : p \in Payloads}
    \cup {<<"magic">> \o p : p \in Payloads}

(***************************************************************************)
(* Paths.  A path is <<root, data type, date, file name>>; save_path +     *)
(* '.gz' appends the suffix as a fifth component.                          *)
(***************************************************************************)
\* A missing save_path (Python None): the empty path.
None == <<>>

TempPath(savePath) == Append(savePath, ".gz")

DirName(path) == SubSeq(path, 1, 3)

\* save_path.replace(self.base_dir, self.temp_dir)
ReplaceBaseDir(path) == [path EXCEPT ![1] = IF @ = "base" THEN "temp" ELSE @]

WriteFile(files, path, bytes) ==
    [p \in DOMAIN files \cup {path} |-> IF p = path THEN bytes ELSE files[p]]

RemoveFile(files, path) ==
    [p \in DOMAIN files \ {path} |-> files[p]]

Exists(files, path) == path \in DOMAIN files

(***************************************************************************)
(* download_file.  resp.kind is the outcome of the HTTP exchange:          *)
(*   "timeout"    requests.get raised (no response within the timeout)     *)
(*   "http_error" a response with a non-2xx status (raise_for_status)      *)
(*   "reset"      a 2xx response whose stream broke; body is what arrived  *)
(*   "ok"         a 2xx response; body is the whole body                   *)
(***************************************************************************)
RespKinds == {"timeout", "http_error", "reset", "ok"}

Responses == [kind : RespKinds, body : Bodies]

RetNone == [kind |-> "none", val |-> <<>>]

RetPath(p) == [kind |-> "path", val |-> p]

RetBytes(b) == [kind |-> "bytes", val |-> b]

\* Python's truth value of the result (`if result:`)
Truthy(r) == r.kind = "path" \/ (r.kind = "bytes" /\ r.val # <<>>)

\* download_file without response.raise_for_status()
RequestFailsNoStatusCheck(resp) == resp.kind = "timeout"

\* requests.get(...) raising, or response.raise_for_status() raising
RequestFails(resp) == resp.kind \in {"timeout", "http_error"}

\* response.content after iter_content has consumed the stream raises
\* RuntimeError: the stream of a stream=True response can be read once.
ContentAfterStream(resp) == [ok |-> FALSE, data |-> <<>>]

\* The '.gz' branch, once the destination directory exists.
DownloadGz(files, path, resp) ==
    LET temp == TempPath(path)
        f1 == WriteFile(files, temp, resp.body)      \* open(temp_path,'wb'); chunks
    IN  IF resp.kind = "reset"
        THEN [fs |-> f1, ret |-> RetNone, wrote |-> {temp}]
        ELSE LET gz == GzipRead(f1[temp])
             IN  IF gz.ok
                 THEN [fs |-> RemoveFile(WriteFile(f1, path, gz.data), temp),
                       ret |-> RetPath(path), wrote |-> {temp, path}]
                 ELSE \* open(save_path,'wb') truncates, then response.content
                      LET raw == ContentAfterStream(resp)
                      IN  IF raw.ok
                          THEN [fs |-> RemoveFile(WriteFile(f1, path, raw.data), temp),
                                ret |-> RetPath(path), wrote |-> {temp, path}]
                          ELSE [fs |-> WriteFile(f1, path, <<>>),
                                ret |-> RetNone, wrote |-> {temp, path}]

\* The uncompressed branch.
DownloadPlain(files, path, resp) ==
    IF path = None
    THEN [fs |-> files,
          ret |-> IF resp.kind = "reset" THEN RetNone ELSE RetBytes(resp.body),
          wrote |-> {}]
    ELSE [fs |-> WriteFile(files, path, resp.body),
          ret |-> IF resp.kind = "reset" THEN RetNone ELSE RetPath(path),
          wrote |-> {path}]

DownloadFile(files, dirSet, urlGz, savePath, isTemp, resp) ==
    IF RequestFails(resp)
    THEN [fs |-> files, dirs |-> dirSet, ret |-> RetNone, wrote |-> {}]
    ELSE LET path == IF savePath # None /\ isTemp THEN ReplaceBaseDir(savePath)
                     ELSE savePath
             d2   == IF path = None THEN dirSet ELSE dirSet \cup {DirName(path)}
         IN  IF urlGz
             THEN IF path = None      \* save_path + '.gz' raises TypeError
                  THEN [fs |-> files, dirs |-> d2, ret |-> RetNone, wrote |-> {}]
                  ELSE [dirs |-> d2] @@ DownloadGz(files, path, resp)
             ELSE [dirs |-> d2] @@ DownloadPlain(files, path, resp)

(***************************************************************************)
(* Text: a Python str is a sequence of one-character strings               *)
(***************************************************************************)
Min(a, b) == IF a < b THEN a ELSE b

\* s[a:b] for 0 <= a <= b
Slice(s, a, b) == SubSeq(s, a + 1, Min(b, Len(s)))

\* sub in s
Contains(s, sub) ==
    \E i \in 1 .. (Len(s) - Len(sub) + 1) : SubSeq(s, i, i + Len(sub) - 1) = sub

\* s.endswith(sub)
EndsWith(s, sub) ==
    Len(s) >= Len(sub) /\ SubSeq(s, Len(s) - Len(sub) + 1, Len(s)) = sub

\* s.split(sep) for a one-character sep: the parts, in order
RECURSIVE SplitFrom(_, _, _)
SplitFrom(s, sep, part) ==
    IF s = <<>> THEN <<part>>
    ELSE IF Head(s) = sep THEN <<part>> \o SplitFrom(Tail(s), sep, <<>>)
    ELSE SplitFrom(Tail(s), sep, Append(part, Head(s)))

Split(s, sep) == SplitFrom(s, sep, <<>>)

Digits == {"0", "1", "2", "3", "4", "5", "6", "7", "8", "9"}

DigitVal(c) ==
    CASE c = "0" -> 0 [] c = "1" -> 1 [] c = "2" -> 2 [] c = "3" -> 3
      [] c = "4" -> 4 [] c = "5" -> 5 [] c = "6" -> 6 [] c = "7" -> 7
      [] c = "8" -> 8 [] c = "9" -> 9

RECURSIVE DecimalValue(_, _)
DecimalValue(s, acc) ==
    IF s = <<>> THEN acc ELSE DecimalValue(Tail(s), 10 * acc + DigitVal(Head(s)))

\* int(s): ValueError unless s is a run of digits, or a sign and digits
IntOf(s) ==
    LET neg == s # <<>> /\ Head(s) = "-"
        body == IF neg THEN Tail(s) ELSE s
    IN  IF body = <<>> \/ \E i \in DOMAIN body : body[i] \notin Digits
        THEN [ok |-> FALSE, val |-> 0]
        ELSE [ok |-> TRUE,
              val |-> IF neg THEN 0 - DecimalValue(body, 0) ELSE DecimalValue(body, 0)]

\* An optional element: find() returned None, or an element with this text
Absent == [present |-> FALSE, text |-> <<>>]

Elem(t) == [present |-> TRUE, text |-> t]

\* elem.text when the element exists and has text, else nothing (None or '')
HasText(e) == e.present /\ e.text # <<>>


(***************************************************************************)
(* Timestamps                                                              *)
(***************************************************************************)
\* s.replace(sub, '')
RECURSIVE RemoveAll(_, _)
RemoveAll(s, sub) ==
    IF Len(s) < Len(sub) \/ sub = <<>> THEN s
    ELSE IF SubSeq(s, 1, Len(sub)) = sub THEN RemoveAll(SubSeq(s, Len(sub) + 1, Len(s)), sub)
    ELSE <<Head(s)>> \o RemoveAll(Tail(s), sub)

\* A field of a timestamp: digits only and within its range
Field(t, a, b, lo, hi) ==
    LET v == IntOf(Slice(t, a, b))
    IN  [ok |-> v.ok /\ Slice(t, a, b) \in [1 .. (b - a) -> Digits] /\ v.val >= lo /\ v.val <= hi,
         val |-> v.val]

\* datetime.fromisoformat on 'YYYY-MM-DD', 'YYYY-MM-DDTHH:MM',
\* 'YYYY-MM-DDTHH:MM:SS' and 'YYYY-MM-DDTHH:MM:SS+HH:MM'; ValueError on a
\* field out of range and on every other text the documents here carry
FromIsoFormat(t) ==
    LET bad == [ok |-> FALSE, day |-> 0, hour |-> 0, minute |-> 0]
        dateOk == /\ Len(t) >= 10
                  /\ t[5] = "-" /\ t[8] = "-"
                  /\ Field(t, 0, 4, 1, 9999).ok
                  /\ Field(t, 5, 7, 1, 12).ok
                  /\ Field(t, 8, 10, 1, 31).ok
        timeOk == /\ Len(t) \in {16, 19, 25}
                  /\ t[14] = ":"
                  /\ Field(t, 11, 13, 0, 23).ok
                  /\ Field(t, 14, 16, 0, 59).ok
                  /\ (Len(t) >= 19 => t[17] = ":" /\ Field(t, 17, 19, 0, 59).ok)
        offsetOk == Len(t) = 25 =>
                  /\ t[20] \in {"+", "-"} /\ t[23] = ":"
                  /\ Field(t, 20, 22, 0, 23).ok
                  /\ Field(t, 23, 25, 0, 59).ok
    IN  IF ~dateOk THEN bad
        ELSE IF Len(t) = 10
        THEN [ok |-> TRUE, day |-> Field(t, 8, 10, 1, 31).val, hour |-> 0, minute |-> 0]
        ELSE IF timeOk /\ offsetOk
        THEN [ok |-> TRUE, day |-> Field(t, 8, 10, 1, 31).val,
              hour |-> Field(t, 11, 13, 0, 23).val, minute |-> Field(t, 14, 16, 0, 59).val]
        ELSE bad


(***************************************************************************)
(* Sensor documents and the importer's extraction (dataSql.py)             *)
(*                                                                         *)
(* A detector document: wellformed (ET.parse succeeds), ns (the elements   *)
(* carry the schema namespace), UpdateTime, and the station elements in    *)
(* document order, each with its tag, its VDID and its Lane elements.      *)
(***************************************************************************)
\* float(text) and int(text) on the texts the documents here carry: runs of
\* digits convert, anything else raises ValueError
FloatOf(t) == IntOf(t)

ParseFailed == [ok |-> FALSE, rows |-> <<>>]

ParseOk(rows) == [ok |-> TRUE, rows |-> rows]

\* The hour and minute of a file: from the name when it has the prefix and
\* the length, else from the update time; found = FALSE is `return []`,
\* ok = FALSE is int() raising
TimeKeys(filename, prefix, minLen, update_time) ==
    IF Contains(filename, prefix) /\ Len(filename) >= minLen
    THEN LET time_part == Slice(Split(filename, "_")[2], 0, 4)
             h == IntOf(Slice(time_part, 0, 2))
             m == IntOf(Slice(time_part, 2, 4))
         IN  [found |-> TRUE, ok |-> h.ok /\ m.ok, hour_key |-> h.val, minute_key |-> m.val]
    ELSE IF update_time # <<>> /\ Len(update_time) >= 16
    THEN LET h == IntOf(Slice(update_time, 11, 13))
             m == IntOf(Slice(update_time, 14, 16))
         IN  [found |-> TRUE, ok |-> h.ok /\ m.ok, hour_key |-> h.val, minute_key |-> m.val]
    ELSE [found |-> FALSE, ok |-> TRUE, hour_key |-> 0, minute_key |-> 0]

\* One Lane element of parse_vd_xml: skipped, raising, or one row
VdLaneRow(lane, vd_id, update_time, date_key, keys) ==
    IF ~lane.LaneID.present \/ ~lane.Speed.present \/ ~lane.Occupancy.present
    THEN ParseOk(<<>>)
    ELSE LET speed == IF HasText(lane.Speed) THEN FloatOf(lane.Speed.text)
                      ELSE [ok |-> TRUE, val |-> 0]
             occupancy == IF HasText(lane.Occupancy) THEN FloatOf(lane.Occupancy.text)
                          ELSE [ok |-> TRUE, val |-> 0]
             volume == IF HasText(lane.Volume) THEN IntOf(lane.Volume.text)
                       ELSE [ok |-> TRUE, val |-> 0]
         IN  IF ~speed.ok \/ ~occupancy.ok \/ ~volume.ok THEN ParseFailed
             ELSE ParseOk(<<[update_time |-> update_time,
                             vd_id |-> vd_id,
                             lane_id |-> lane.LaneID.text,
                             speed |-> speed.val,
                             occupancy |-> occupancy.val,
                             volume |-> volume.val,
                             date_key |-> date_key,
                             hour_key |-> keys.hour_key,
                             minute_key |-> keys.minute_key]>>)

\* `for lane in lanes`: the rows so far, unless a lane raised
RECURSIVE VdLaneRows(_, _, _, _, _)
VdLaneRows(lanes, vd_id, update_time, date_key, keys) ==
    IF lanes = <<>> THEN ParseOk(<<>>)
    ELSE LET first == VdLaneRow(Head(lanes), vd_id, update_time, date_key, keys)
             rest == VdLaneRows(Tail(lanes), vd_id, update_time, date_key, keys)
         IN  IF ~first.ok \/ ~rest.ok THEN ParseFailed
             ELSE ParseOk(first.rows \o rest.rows)

\* `for vd in vd_elements`: a station without VDID is passed over
RECURSIVE VdStationRows(_, _, _, _)
VdStationRows(stations, update_time, date_key, keys) ==
    IF stations = <<>> THEN ParseOk(<<>>)
    ELSE LET vd == Head(stations)
             first == IF ~vd.VDID.present THEN ParseOk(<<>>)
                      ELSE VdLaneRows(vd.lanes, vd.VDID.text, update_time, date_key, keys)
             rest == VdStationRows(Tail(stations), update_time, date_key, keys)
         IN  IF ~first.ok \/ ~rest.ok THEN ParseFailed
             ELSE ParseOk(first.rows \o rest.rows)

\* The elements of a sequence that satisfy a test, in order
RECURSIVE WithTag(_, _)
WithTag(stations, tag) ==
    IF stations = <<>> THEN <<>>
    ELSE IF Head(stations).tag = tag THEN <<Head(stations)>> \o WithTag(Tail(stations), tag)
    ELSE WithTag(Tail(stations), tag)

VDLive_ == <<"V", "D", "L", "i", "v", "e", "_">>

\* HighwayDataImporter.parse_vd_xml: the rows, [] when anything raised
parse_vd_xml(filename, doc, date_key) ==
    IF ~doc.wellformed THEN <<>>
    ELSE LET update_time == IF doc.UpdateTime.present THEN doc.UpdateTime.text ELSE <<>>
             keys == TimeKeys(filename, VDLive_, 12, update_time)
             vd_elements == IF WithTag(doc.stations, "VDLive") # <<>>
                            THEN WithTag(doc.stations, "VDLive")
                            ELSE WithTag(doc.stations, "VD")
             r == VdStationRows(vd_elements, update_time, date_key, keys)
         IN  IF ~keys.found \/ ~keys.ok \/ ~r.ok THEN <<>> ELSE r.rows


(***************************************************************************)
(* A tag-pair document: wellformed, ns (the namespace its elements carry:  *)
(* "schema" for the traffic schema, "none", or "other"), UpdateTime, and   *)
(* the ETagPairLive elements in document order, each with ETagPairID,      *)
(* StartTime, TravelTime and a Flows element holding Flow elements.        *)
(***************************************************************************)
ETagPairLive_ == <<"E", "T", "a", "g", "P", "a", "i", "r", "L", "i", "v", "e", "_">>

\* One ETagPairLive element of parse_etag_xml: skipped, raising, or one row
EtagPairRow(pair, update_time, date_key, keys) ==
    IF ~HasText(pair.ETagPairID) \/ ~Contains(pair.ETagPairID.text, <<"-">>)
    THEN ParseOk(<<>>)
    ELSE LET station_parts == Split(pair.ETagPairID.text, "-")
             travel_time == IF HasText(pair.TravelTime) THEN FloatOf(pair.TravelTime.text)
                            ELSE [ok |-> TRUE, val |-> 0]
         IN  IF Len(station_parts) # 2 THEN ParseOk(<<>>)
             ELSE IF ~travel_time.ok THEN ParseFailed
             ELSE ParseOk(<<[update_time |-> update_time,
                             from_station |-> station_parts[1],
                             to_station |-> station_parts[2],
                             travel_time |-> travel_time.val,
                             date_key |-> date_key,
                             hour_key |-> keys.hour_key,
                             minute_key |-> keys.minute_key]>>)

RECURSIVE EtagPairRows(_, _, _, _)
EtagPairRows(pairs, update_time, date_key, keys) ==
    IF pairs = <<>> THEN ParseOk(<<>>)
    ELSE LET first == EtagPairRow(Head(pairs), update_time, date_key, keys)
             rest == EtagPairRows(Tail(pairs), update_time, date_key, keys)
         IN  IF ~first.ok \/ ~rest.ok THEN ParseFailed
             ELSE ParseOk(first.rows \o rest.rows)

\* HighwayDataImporter.parse_etag_xml: every lookup is by the 'ns' prefix
\* bound to the schema namespace, so other documents show no elements
parse_etag_xml(filename, doc, date_key) ==
    IF ~doc.wellformed THEN <<>>
    ELSE LET visible == doc.ns = "schema"
             update_time == IF visible /\ doc.UpdateTime.present
                            THEN doc.UpdateTime.text ELSE <<>>
             keys == TimeKeys(filename, ETagPairLive_, 17, update_time)
             pair_elements == IF visible THEN doc.pairs ELSE <<>>
             r == EtagPairRows(pair_elements, update_time, date_key, keys)
         IN  IF ~keys.found \/ ~keys.ok \/ ~r.ok THEN <<>> ELSE r.rows


(***************************************************************************)
(* The collector's extraction (test.py)                                    *)
(***************************************************************************)
Unknown == <<"u", "n", "k", "n", "o", "w", "n">>

\* get_text(path) or default: the element's text, the default when the
\* element is missing or empty
TextOr(e, default) == IF HasText(e) THEN e.text ELSE default

\* One Lane element of process_vd_file_to_db: raising, or one row
CollectorLaneRow(lane, vd_id, date, hour, minute) ==
    LET speed == FloatOf(TextOr(lane.Speed, <<"0">>))
        occupancy == FloatOf(TextOr(lane.Occupancy, <<"0">>))
        volume == FloatOf(TextOr(lane.Volume, <<"0">>))
    IN  IF ~speed.ok \/ ~occupancy.ok \/ ~volume.ok THEN ParseFailed
        ELSE ParseOk(<<[vd_id |-> vd_id,
                        lane_id |-> TextOr(lane.LaneID, Unknown),
                        speed |-> speed.val,
                        occupancy |-> occupancy.val,
                        volume |-> volume.val,
                        date |-> date,
                        hour |-> hour,
                        minute |-> minute]>>)

RECURSIVE CollectorLaneRows(_, _, _, _, _)
CollectorLaneRows(lanes, vd_id, date, hour, minute) ==
    IF lanes = <<>> THEN ParseOk(<<>>)
    ELSE LET first == CollectorLaneRow(Head(lanes), vd_id, date, hour, minute)
             rest == CollectorLaneRows(Tail(lanes), vd_id, date, hour, minute)
         IN  IF ~first.ok \/ ~rest.ok THEN ParseFailed
             ELSE ParseOk(first.rows \o rest.rows)

RECURSIVE CollectorStationRows(_, _, _, _)
CollectorStationRows(stations, date, hour, minute) ==
    IF stations = <<>> THEN ParseOk(<<>>)
    ELSE LET vd == Head(stations)
             vd_id == IF vd.VDID.present THEN vd.VDID.text ELSE Unknown
             first == CollectorLaneRows(vd.lanes, vd_id, date, hour, minute)
             rest == CollectorStationRows(Tail(stations), date, hour, minute)
         IN  IF ~first.ok \/ ~rest.ok THEN ParseFailed
             ELSE ParseOk(first.rows \o rest.rows)

\* FreewayDataCollector.process_vd_file_to_db up to the insert: the rows of
\* vd_data_list.  In a document without a namespace the unprefixed lookup
\* yields nothing usable (None, or a childless element, which is false) and
\* the 'ns:' lookup with an empty prefix map raises; the outer handler then
\* returns 0.
process_vd_file_to_db(doc, date, hour, minute) ==
    IF ~doc.wellformed \/ doc.ns = "none" THEN <<>>
    ELSE LET update_time == IF doc.UpdateTime.present
                            THEN (IF doc.UpdateTime.text = <<>>
                                  THEN [ok |-> FALSE, day |-> 0, hour |-> 0, minute |-> 0]
                                  ELSE FromIsoFormat(doc.UpdateTime.text))
                            ELSE [ok |-> TRUE, day |-> 0, hour |-> 0, minute |-> 0]
             r == CollectorStationRows(WithTag(doc.stations, "VDLive"), date, hour, minute)
         IN  IF ~update_time.ok \/ ~r.ok THEN <<>> ELSE r.rows


(***************************************************************************)
(* The training-set loader's extraction (src/data_load.py)                 *)
(***************************************************************************)
\* int(elem.text) of a child looked up with find(): raises when the child is
\* missing, has no text, or is not a number
ChildInt(e) == IF ~HasText(e) THEN [ok |-> FALSE, val |-> 0] ELSE IntOf(e.text)

\* The loop with the travel-time test left out of its guard
RECURSIVE FlowTotalsAnyTravelTime(_, _)
FlowTotalsAnyTravelTime(flows, acc) ==
    IF flows = <<>> THEN acc
    ELSE LET flow == Head(flows)
             vehicle_count == ChildInt(flow.VehicleCount)
             travel_time == ChildInt(flow.TravelTime)
             speed == ChildInt(flow.SpaceMeanSpeed)
         IN  IF ~vehicle_count.ok \/ ~travel_time.ok \/ ~speed.ok
             THEN [acc EXCEPT !.ok = FALSE]
             ELSE IF vehicle_count.val > 0
             THEN FlowTotalsAnyTravelTime(Tail(flows),
                      [ok |-> TRUE,
                       total_vehicle_count |-> acc.total_vehicle_count + vehicle_count.val,
                       weighted_travel_time |-> acc.weighted_travel_time
                                                  + travel_time.val * vehicle_count.val,
                       weighted_speed |-> acc.weighted_speed + speed.val * vehicle_count.val])
             ELSE FlowTotalsAnyTravelTime(Tail(flows), acc)

\* The loop over Flow elements: the three running sums, unless a flow raised
RECURSIVE FlowTotals(_, _)
FlowTotals(flows, acc) ==
    IF flows = <<>> THEN acc
    ELSE LET flow == Head(flows)
             vehicle_count == ChildInt(flow.VehicleCount)
             travel_time == ChildInt(flow.TravelTime)
             speed == ChildInt(flow.SpaceMeanSpeed)
         IN  IF ~vehicle_count.ok \/ ~travel_time.ok \/ ~speed.ok
             THEN [acc EXCEPT !.ok = FALSE]
             ELSE IF vehicle_count.val > 0 /\ travel_time.val > 0
             THEN FlowTotals(Tail(flows),
                      [ok |-> TRUE,
                       total_vehicle_count |-> acc.total_vehicle_count + vehicle_count.val,
                       weighted_travel_time |-> acc.weighted_travel_time
                                                  + travel_time.val * vehicle_count.val,
                       weighted_speed |-> acc.weighted_speed + speed.val * vehicle_count.val])
             ELSE FlowTotals(Tail(flows), acc)

NoFlow ==
    [ok |-> TRUE, total_vehicle_count |-> 0, weighted_travel_time |-> 0, weighted_speed |-> 0]

\* weighted / total as an exact fraction; 0 when nothing was counted
Average(weighted, total) ==
    IF total > 0 THEN [num |-> weighted, den |-> total] ELSE [num |-> 0, den |-> 1]

\* The pair body without the record for the end station
LoaderPairRowsStartOnly(pair) ==
    LET raised == [raise |-> TRUE, rows |-> <<>>]
        parts == Split(pair.ETagPairID.text, "-")
        start_datetime == FromIsoFormat(RemoveAll(pair.StartTime.text,
                                                  <<"+", "0", "8", ":", "0", "0">>))
        totals == FlowTotals(pair.Flows.flows, NoFlow)
        data_row == [etag_id |-> parts[1],
                     day |-> start_datetime.day,
                     hour |-> start_datetime.hour,
                     minute |-> start_datetime.minute,
                     flow |-> totals.total_vehicle_count,
                     speed |-> Average(totals.weighted_speed, totals.total_vehicle_count),
                     travel_time |-> Average(totals.weighted_travel_time,
                                             totals.total_vehicle_count)]
    IN  IF ~pair.ETagPairID.present \/ ~pair.StartTime.present THEN raised
        ELSE IF pair.ETagPairID.text = <<>> \/ Len(parts) # 2
        THEN [raise |-> FALSE, rows |-> <<>>]
        ELSE IF pair.StartTime.text = <<>> \/ ~start_datetime.ok THEN raised
        ELSE IF ~pair.Flows.present \/ ~totals.ok THEN raised
        ELSE [raise |-> FALSE, rows |-> <<data_row>>]

\* One ETagPairLive element of parse_xml_files: raise = TRUE when the body
\* raised (the file's handler takes over), else the rows appended to
\* all_data: none after `continue`, or one for each end of the pair
LoaderPairRows(pair) ==
    LET raised == [raise |-> TRUE, rows |-> <<>>]
        parts == Split(pair.ETagPairID.text, "-")
        start_datetime == FromIsoFormat(RemoveAll(pair.StartTime.text,
                                                  <<"+", "0", "8", ":", "0", "0">>))
        totals == FlowTotals(pair.Flows.flows, NoFlow)
        data_row == [etag_id |-> parts[1],
                     day |-> start_datetime.day,
                     hour |-> start_datetime.hour,
                     minute |-> start_datetime.minute,
                     flow |-> totals.total_vehicle_count,
                     speed |-> Average(totals.weighted_speed, totals.total_vehicle_count),
                     travel_time |-> Average(totals.weighted_travel_time,
                                             totals.total_vehicle_count)]
    IN  IF ~pair.ETagPairID.present \/ ~pair.StartTime.present THEN raised
        ELSE IF pair.ETagPairID.text = <<>> \/ Len(parts) # 2
        THEN [raise |-> FALSE, rows |-> <<>>]
        ELSE IF pair.StartTime.text = <<>> \/ ~start_datetime.ok THEN raised
        ELSE IF ~pair.Flows.present \/ ~totals.ok THEN raised
        ELSE [raise |-> FALSE,
              rows |-> <<data_row, [data_row EXCEPT !.etag_id = parts[2]]>>]

\* `for pair_live in pair_lives` with all_data.append inside the loop: the
\* rows appended before the first pair that raised stay appended
RECURSIVE LoaderRows(_)
LoaderRows(pairs) ==
    IF pairs = <<>> THEN [raise |-> FALSE, rows |-> <<>>]
    ELSE LET first == LoaderPairRows(Head(pairs))
             rest == LoaderRows(Tail(pairs))
         IN  IF first.raise THEN first
             ELSE [raise |-> rest.raise, rows |-> first.rows \o rest.rows]

\* The body of parse_xml_files for one file: what it appends to all_data
ParseXmlFile(doc) ==
    IF ~doc.wellformed THEN [raise |-> TRUE, rows |-> <<>>]
    ELSE IF doc.ns # "schema" THEN [raise |-> FALSE, rows |-> <<>>]
    ELSE LoaderRows(doc.pairs)


(***************************************************************************)
(* Inputs of the extraction functions                                      *)
(***************************************************************************)
\* No document: what xml_doc holds while no extraction function is applied
NoDoc ==
    [kind |-> "none", wellformed |-> FALSE, ns |-> "none", UpdateTime |-> Absent,
     stations |-> <<>>, pairs |-> <<>>]

NotParsed == [op |-> "none", rows |-> <<>>]

MaxStations == 2
MaxLanes == 1
MaxPairs == 2
\* time_part = filename.split("_")[1][:4]
TokenLen == 4

DotXml == <<".", "x", "m", "l">>

TokenChars == {"0", "2", "7"}

\* The HHMM part of a file name: every four characters of TokenChars, and
\* one that is not a number
TimeTokens == [1 .. TokenLen -> TokenChars] \cup {<<"0", "x", "0", "0">>}

VdName(t) == VDLive_ \o t \o DotXml

EtagName(t) == ETagPairLive_ \o t \o DotXml

\* A file name without the prefix of either feed
OtherName == <<"d">> \o DotXml

FileNames == {VdName(t) : t \in TimeTokens} \cup {EtagName(t) : t \in TimeTokens}
                 \cup {OtherName}

\* '2024-01-01T' hh ':' mm ':00+08:00'
Stamp(hh, mm) ==
    <<"2", "0", "2", "4", "-", "0", "1", "-", "0", "1", "T">> \o hh \o <<":">> \o mm
        \o <<":", "0", "0", "+", "0", "8", ":", "0", "0">>

GoodStamp == Stamp(<<"0", "8">>, <<"3", "0">>)

UpdateTimes ==
    {Absent,
     Elem(GoodStamp),
     Elem(Stamp(<<"2", "7">>, <<"7", "0">>)),
     Elem(<<"2", "0", "2", "4", "-", "0", "1", "-", "0", "1">>)}

FullLane ==
    [LaneID |-> Elem(<<"1">>), Speed |-> Elem(<<"6", "0">>),
     Occupancy |-> Elem(<<"5">>), Volume |-> Elem(<<"3">>)]

LaneSet ==
    {FullLane,
     [FullLane EXCEPT !.LaneID = Absent],
     [FullLane EXCEPT !.Speed = Absent],
     [FullLane EXCEPT !.Occupancy = Absent],
     [FullLane EXCEPT !.Speed = Elem(<<"x">>)]}

GoodStation == [tag |-> "VDLive", VDID |-> Elem(<<"A">>), lanes |-> <<FullLane>>]

Stations ==
    {[GoodStation EXCEPT !.VDID = Absent],
     [GoodStation EXCEPT !.tag = "VD", !.VDID = Elem(<<"B">>)]}
        \cup {[GoodStation EXCEPT !.lanes = l] : l \in SeqUpTo(LaneSet, MaxLanes)}

GoodFlow ==
    [VehicleCount |-> Elem(<<"2">>), TravelTime |-> Elem(<<"9", "0">>),
     SpaceMeanSpeed |-> Elem(<<"8", "0">>)]

GoodPair ==
    [ETagPairID |-> Elem(<<"A", "-", "B">>), StartTime |-> Elem(GoodStamp),
     TravelTime |-> Absent, Flows |-> [present |-> TRUE, flows |-> <<GoodFlow>>]]

PairSet ==
    {GoodPair,
     [GoodPair EXCEPT !.ETagPairID = Elem(<<"C", "-", "D">>), !.TravelTime = Elem(<<"9", "0">>)],
     [GoodPair EXCEPT !.ETagPairID = Elem(<<"A", "B">>)],
     [GoodPair EXCEPT !.Flows = [present |-> FALSE, flows |-> <<>>]]}

VdDoc(ns, update_time, stations) ==
    [kind |-> "VD", wellformed |-> TRUE, ns |-> ns, UpdateTime |-> update_time,
     stations |-> stations, pairs |-> <<>>]

EtagDoc(ns, update_time, pairs) ==
    [kind |-> "ETag", wellformed |-> TRUE, ns |-> ns, UpdateTime |-> update_time,
     stations |-> <<>>, pairs |-> pairs]

\* A file that is not XML (ET.parse raises)
Malformed(kind) == [NoDoc EXCEPT !.kind = kind]

Namespaces == {"schema", "other", "none"}

\* Documents with one complete station or pair, under every namespace and
\* update time
TimeDocs ==
    {VdDoc(ns, ut, <<GoodStation>>) : ns \in Namespaces, ut \in UpdateTimes}
        \cup {EtagDoc(ns, ut, <<GoodPair>>) : ns \in Namespaces, ut \in UpdateTimes}

VdDocs == {VdDoc("schema", Elem(GoodStamp), st) : st \in SeqUpTo(Stations, MaxStations)}

EtagDocs == {EtagDoc("schema", Elem(GoodStamp), ps) : ps \in SeqUpTo(PairSet, MaxPairs)}

MaxFlows == 3

\* Flow elements: two that count, and ones whose VehicleCount or TravelTime
\* is zero or negative
FlowSet ==
    {GoodFlow,
     [VehicleCount |-> Elem(<<"3">>), TravelTime |-> Elem(<<"6", "0">>),
      SpaceMeanSpeed |-> Elem(<<"1", "0", "0">>)],
     [GoodFlow EXCEPT !.VehicleCount = Elem(<<"0">>)],
     [GoodFlow EXCEPT !.TravelTime = Elem(<<"0">>)],
     [GoodFlow EXCEPT !.VehicleCount = Elem(<<"-", "1">>)]}

\* Documents with one pair and every short list of flows under it
FlowDocs ==
    {EtagDoc("schema", Elem(GoodStamp),
             <<[GoodPair EXCEPT !.Flows = [present |-> TRUE, flows |-> fl]]>>) :
        fl \in SeqUpTo(FlowSet, MaxFlows)}

GoodVdName == VdName(<<"0", "0", "0", "0">>)

GoodEtagName == EtagName(<<"0", "0", "0", "0">>)

\* The (file name, document) pairs the extraction functions are applied to
ParseInputs ==
    (FileNames \X TimeDocs)
        \cup ({GoodVdName} \X (VdDocs \cup {Malformed("VD")}))
        \cup ({GoodEtagName} \X (EtagDocs \cup {Malformed("ETag")}))

(***************************************************************************)
(* The calls of download_file                                              *)
(***************************************************************************)
Dest == <<"base", "VD", "20240101", "VDLive_0000.xml">>

NoCall(isTemp) ==
    [urlGz |-> FALSE, savePath |-> None, isTemp |-> isTemp,
     resp |-> [kind |-> "timeout", body |-> <<>>], n |-> 0]

(***************************************************************************)
(* The per-date driver and the worker pool.                                *)
(***************************************************************************)
HoursPerDay == 2

MinutesPerHour == 60

VdMinInterval == 30

EtagMinInterval == 60

DateSet == {"20240101", "20240102"}

MaxWorkers == 2

Hours == 0 .. (HoursPerDay - 1)

\* range(0, 60, min_interval)
MinuteRange(minInterval) ==
    {m \in 0 .. (MinutesPerHour - 1) : m % minInterval = 0}

MinInterval(type) == IF type = "VD" THEN VdMinInterval ELSE EtagMinInterval

\* The slices as sortable keys: hour * 60 + minute
SliceKey(s) == s.hour * MinutesPerHour + s.minute

\* A set of numbers as the ascending sequence a Python range yields
RECURSIVE Ascending(_)
Ascending(S) ==
    IF S = {} THEN <<>>
    ELSE LET lo == CHOOSE x \in S : \A y \in S : x <= y
         IN  <<lo>> \o Ascending(S \ {lo})

\* download_vd_data / download_etag_data: the slices of one call, in loop order
CallSlices(type, hour) ==
    LET ms == Ascending(MinuteRange(MinInterval(type)))
    IN  [i \in 1 .. Len(ms) |-> [type |-> type, hour |-> hour, minute |-> ms[i]]]

\* download_all_data_for_date: for hour in range(24): VD, then ETag
HourSlices(types, hour) ==
    (IF "VD" \in types THEN CallSlices("VD", hour) ELSE <<>>)
    \o (IF "ETag" \in types THEN CallSlices("ETag", hour) ELSE <<>>)

RECURSIVE PlanFrom(_, _)
PlanFrom(types, hour) ==
    IF hour >= HoursPerDay THEN <<>>
    ELSE HourSlices(types, hour) \o PlanFrom(types, hour + 1)

Plan(types) == PlanFrom(types, 0)

FilePrefix(type) == IF type = "VD" THEN "VDLive" ELSE "ETagPairLive"

\* A save path that leaves the date out of the directory
SavePathNoDate(isTemp, date, s) ==
    <<IF isTemp THEN "temp" ELSE "base", s.type, "",
      <<FilePrefix(s.type), s.hour, s.minute, ".xml">>>>

\* os.path.join(save_dir, f"VDLive_{hour}{minute:02d}.xml") with
\* save_dir = os.path.join(base_dir or temp_dir, type, date)
SavePath(isTemp, date, s) ==
    <<IF isTemp THEN "temp" ELSE "base", s.type, date,
      <<FilePrefix(s.type), s.hour, s.minute, ".xml">>>>

RowKey(date, s) == <<s.type, date, s.hour, s.minute>>

\* INSERT ... executemany + commit: n more rows under the key (append-only)
InsertRows(store, key, n) ==
    IF n = 0 THEN store
    ELSE [k \in DOMAIN store \cup {key} |->
            IF k = key THEN (IF k \in DOMAIN store THEN store[k] ELSE 0) + n
            ELSE store[k]]

RowCount(store, key) == IF key \in DOMAIN store THEN store[key] ELSE 0

\* Number of records process_*_file_to_db extracts from a downloaded file:
\* an empty file is not well-formed XML (ParseError), any other payload is a
\* document with one record.
ExtractCount(bytes) == IF bytes = <<>> THEN 0 ELSE 1

\* process_vd_file_to_db / process_etag_file_to_db: the rows the call commits.
\* An empty batch opens no connection; a failed executemany or commit is
\* rolled back.
RowsCommitted(bytes, dbOutcome) ==
    IF ExtractCount(bytes) = 0 THEN 0
    ELSE IF dbOutcome = "ok" THEN ExtractCount(bytes) ELSE 0

\* cleanup_temp_files(date): every file below os.path.join(temp_dir, date)
CleanupTempFiles(files, date) ==
    [p \in {q \in DOMAIN files : ~(q[1] = "temp" /\ q[2] = date)} |-> files[p]]

NoTask == [pc |-> "queued", pos |-> 0, nfiles |-> 0]

IdlePool ==
    /\ cfg = [use_db |-> FALSE, is_temp |-> FALSE, max_workers |-> 1, data_types |-> {}]
    /\ dates = <<>>
    /\ queue = <<>>
    /\ task = [d \in DateSet |-> NoTask]
    /\ log = [d \in DateSet |-> <<>>]
    /\ lastWrite = [date |-> "", paths |-> {}]
    /\ db = <<>>
    /\ collected = {}
    /\ total_files = 0
    /\ mainPc = "idle"

IdleFetch ==
    /\ call = NoCall(FALSE)
    /\ ret = RetNone

IdleXml ==
    /\ folder = <<>>
    /\ listing = <<>>
    /\ ipc = "idle"
    /\ ipos = 0
    /\ vd_data = <<>>
    /\ total_rows = 0
    /\ all_data = <<>>
    /\ xml_file = <<>>
    /\ xml_doc = NoDoc
    /\ parsed = NotParsed

IdleTrain ==
    /\ etag_info = <<>>
    /\ idx = 0
    /\ etag_dict = <<>>
    /\ flow_data = <<>>
    /\ printed = <<>>
    /\ result_df = <<>>
    /\ tpc = "idle"

\* No load operation yet
NoLoad == [op |-> "none", batch |-> <<>>, ret |-> 0, outcome |-> "none", opened |-> 0]

IdleStore ==
    /\ conns = 0
    /\ load_ret = NoLoad
    /\ init_db = "none"
    /\ etag_data = <<>>

IdleStatic ==
    /\ static_files = <<>>
    /\ requests = <<>>

Range(f) == {f[i] : i \in DOMAIN f}

Running == {d \in DateSet : task[d].pc = "running"}

\* download_multiple_dates: executor.submit for every date, in list order
Submit ==
    /\ mainPc = "idle"
    /\ queue' = dates
    /\ mainPc' = "collecting"
    /\ UNCHANGED <<xmlVars, trainVars, storeVars, staticVars,
                   fs, dirs, fetchVars, cfg, dates, task, log, lastWrite, db,
                   collected, total_files>>

\* A free worker takes the next date from the queue
StartTask(d) ==
    /\ queue # <<>>
    /\ d = Head(queue)
    /\ Cardinality(Running) < cfg.max_workers
    /\ queue' = Tail(queue)
    /\ task' = [task EXCEPT ![d].pc = "running"]
    /\ UNCHANGED <<xmlVars, trainVars, storeVars, staticVars,
                   fs, dirs, fetchVars, cfg, dates, log, lastWrite, db,
                   collected, total_files, mainPc>>

\* A minute loop that stays on a slice until its download succeeds
NextPosRetry(pos, got) == IF got THEN pos + 1 ELSE pos

\* `for minute in range(0, 60, min_interval)`: the loop moves on whatever
\* download_file returned
NextPos(pos, got) == pos + 1

\* One pass of the minute loop of download_vd_data / download_etag_data:
\* download_file, then process_*_file_to_db when it returned a path.
TaskSlice(d, responses) ==
    /\ task[d].pc = "running"
    /\ task[d].pos < Len(Plan(cfg.data_types))
    /\ LET s == Plan(cfg.data_types)[task[d].pos + 1]
           savePath == SavePath(cfg.is_temp, d, s)
       IN  \E resp \in responses, dbOutcome \in {"ok", "fail"} :
             LET r == DownloadFile(fs, dirs, TRUE, savePath, cfg.is_temp, resp)
                 got == Truthy(r.ret)
                 rows == IF got /\ cfg.use_db
                         THEN RowsCommitted(r.fs[r.ret.val], dbOutcome) ELSE 0
             IN  /\ (dbOutcome = "fail" => got /\ cfg.use_db)
                 /\ fs' = r.fs
                 /\ dirs' = r.dirs \cup {DirName(savePath)}
                 /\ task' = [task EXCEPT ![d].pos = NextPos(@, got),
                                         ![d].nfiles = IF got THEN @ + 1 ELSE @]
                 /\ log' = [log EXCEPT ![d] = Append(@, s)]
                 /\ lastWrite' = [date |-> d, paths |-> r.wrote]
                 /\ db' = InsertRows(db, RowKey(d, s), rows)
    /\ UNCHANGED <<xmlVars, trainVars, storeVars, staticVars,
                   fetchVars, cfg, dates, queue, collected, total_files,
                   mainPc>>

\* os.makedirs(save_dir) at the head of a download_*_data call raises
\* (OSError): the exception leaves download_all_data_for_date.
TaskRaise(d) ==
    /\ task[d].pc = "running"
    /\ task[d].pos < Len(Plan(cfg.data_types))
    /\ Plan(cfg.data_types)[task[d].pos + 1].minute = 0
    /\ task' = [task EXCEPT ![d].pc = "raised"]
    /\ UNCHANGED <<xmlVars, trainVars, storeVars, staticVars,
                   fs, dirs, fetchVars, cfg, dates, queue, log, lastWrite, db,
                   collected, total_files, mainPc>>

\* The end of download_all_data_for_date: cleanup when is_temp and use_db,
\* then return total_files.
TaskFinish(d) ==
    /\ task[d].pc = "running"
    /\ task[d].pos = Len(Plan(cfg.data_types))
    /\ fs' = IF cfg.is_temp /\ cfg.use_db THEN CleanupTempFiles(fs, d) ELSE fs
    /\ task' = [task EXCEPT ![d].pc = "done"]
    /\ UNCHANGED <<xmlVars, trainVars, storeVars, staticVars,
                   dirs, fetchVars, cfg, dates, queue, log, lastWrite, db,
                   collected, total_files, mainPc>>

\* A collector that adds the file count of a task that raised
FutureResultCountsRaised(t) == t.nfiles

\* What future.result() adds to total_files: the task's return value, or
\* nothing when the task raised.
FutureResult(t) == IF t.pc = "done" THEN t.nfiles ELSE 0

\* The as_completed loop: one finished future per pass
Collect(d) ==
    /\ mainPc = "collecting"
    /\ d \in Range(dates)
    /\ d \notin collected
    /\ task[d].pc \in {"done", "raised"}
    /\ collected' = collected \cup {d}
    /\ total_files' = total_files + FutureResult(task[d])
    /\ UNCHANGED <<xmlVars, trainVars, storeVars, staticVars,
                   fs, dirs, fetchVars, cfg, dates, queue, task, log, lastWrite,
                   db, mainPc>>

\* All futures consumed: the executor shuts down and the function returns
Return ==
    /\ mainPc = "collecting"
    /\ collected = Range(dates)
    /\ mainPc' = "returned"
    /\ UNCHANGED <<xmlVars, trainVars, storeVars, staticVars,
                   fs, dirs, fetchVars, cfg, dates, queue, task, log, lastWrite,
                   db, collected, total_files>>

\* What download_multiple_dates returns: `return total_files`, the number
\* of files of the dates that completed, and nothing else
RunResult == [total_files |-> total_files]

\* What the upstream serves in the pool runs: the slice as a gzip member, or
\* no resource (HTTP 404).
PoolResponses ==
    {[kind |-> "http_error", body |-> <<>>],
     [kind |-> "ok", body |-> GzipCompress(<<"a">>)]}

\* What the upstream serves in the single-date runs: also an empty document.
DriverResponses ==
    PoolResponses
    \cup {[kind |-> "ok", body |-> GzipCompress(<<>>)]}

ListsOf(S) ==
    {q \in [1 .. Cardinality(S) -> S] : \A i, j \in DOMAIN q : i # j => q[i] # q[j]}

DateLists == UNION {ListsOf(S) : S \in SUBSET DateSet}

InitPool ==
    /\ fs = <<>>
    /\ dirs = {}
    /\ IdleFetch
    /\ IdleXml
    /\ IdleTrain
    /\ IdleStore
    /\ IdleStatic
    /\ cfg \in [use_db : {FALSE}, is_temp : BOOLEAN, max_workers : 1 .. MaxWorkers,
                data_types : {{"ETag"}}]
    /\ dates \in DateLists
    /\ queue = <<>>
    /\ task = [d \in DateSet |-> NoTask]
    /\ log = [d \in DateSet |-> <<>>]
    /\ lastWrite = [date |-> "", paths |-> {}]
    /\ db = <<>>
    /\ collected = {}
    /\ total_files = 0
    /\ mainPc = "idle"

NextPool ==
    \/ Submit
    \/ \E d \in DateSet : StartTask(d)
    \/ \E d \in DateSet : TaskSlice(d, PoolResponses)
    \/ \E d \in DateSet : TaskRaise(d)
    \/ \E d \in DateSet : TaskFinish(d)
    \/ \E d \in DateSet : Collect(d)
    \/ Return

SpecPool == InitPool /\ [][NextPool]_vars

\* One date: each sensor type alone with the store enabled, and both types
\* without the store.
InitDate ==
    /\ fs = <<>>
    /\ dirs = {}
    /\ IdleFetch
    /\ IdleXml
    /\ IdleTrain
    /\ IdleStore
    /\ IdleStatic
    /\ cfg \in [use_db : {TRUE}, is_temp : BOOLEAN, max_workers : {1},
                data_types : {{"VD"}, {"ETag"}}]
             \cup [use_db : {FALSE}, is_temp : BOOLEAN, max_workers : {1},
                   data_types : {{"VD", "ETag"}}]
    /\ dates = <<"20240101">>
    /\ queue = <<>>
    /\ task = [d \in DateSet |-> NoTask]
    /\ log = [d \in DateSet |-> <<>>]
    /\ lastWrite = [date |-> "", paths |-> {}]
    /\ db = <<>>
    /\ collected = {}
    /\ total_files = 0
    /\ mainPc = "idle"

NextDate ==
    \/ Submit
    \/ \E d \in DateSet : StartTask(d)
    \/ \E d \in DateSet : TaskSlice(d, DriverResponses)
    \/ \E d \in DateSet : TaskRaise(d)
    \/ \E d \in DateSet : TaskFinish(d)
    \/ \E d \in DateSet : Collect(d)
    \/ Return

SpecDate == InitDate /\ [][NextDate]_vars

(***************************************************************************)
(* Specification of the fetch layer: any sequence of download_file calls   *)
(* for one destination.                                                    *)
(***************************************************************************)
\* A run passes one is_temp setting down to every download_file call.
InitFetch ==
    /\ fs = <<>>
    /\ dirs = {}
    /\ call \in {NoCall(t) : t \in BOOLEAN}
    /\ ret = RetNone
    /\ IdlePool
    /\ IdleXml
    /\ IdleTrain
    /\ IdleStore
    /\ IdleStatic

CallDownloadFile ==
    \E urlGz \in BOOLEAN, savePath \in {Dest, None}, resp \in Responses :
        LET isTemp == call.isTemp
            r == DownloadFile(fs, dirs, urlGz, savePath, isTemp, resp)
        IN  /\ fs' = r.fs
            /\ dirs' = r.dirs
            /\ ret' = r.ret
            /\ call' = [urlGz |-> urlGz, savePath |-> savePath, isTemp |-> isTemp,
                        resp |-> resp, n |-> 1]
            /\ UNCHANGED <<poolVars, xmlVars, trainVars, storeVars, staticVars>>

NextFetch == CallDownloadFile

SpecFetch == InitFetch /\ [][NextFetch]_vars

(***************************************************************************)
(* Specification of the extraction functions: each is applied to a file    *)
(* name and a document drawn from ParseInputs.                             *)
(***************************************************************************)
DateFolder == <<"2", "0", "2", "4", "0", "1", "0", "1">>

\* date_key = f"{date_folder[:4]}-{date_folder[4:6]}-{date_folder[6:8]}"
DateKey(date_folder) ==
    Slice(date_folder, 0, 4) \o <<"-">> \o Slice(date_folder, 4, 6) \o <<"-">>
        \o Slice(date_folder, 6, 8)

InitParse ==
    /\ fs = <<>>
    /\ dirs = {}
    /\ IdleFetch
    /\ IdlePool
    /\ folder = <<>>
    /\ listing = <<>>
    /\ ipc = "idle"
    /\ ipos = 0
    /\ vd_data = <<>>
    /\ total_rows = 0
    /\ all_data = <<>>
    /\ \E input \in ParseInputs :
          /\ xml_file = input[1]
          /\ xml_doc = input[2]
    /\ parsed = NotParsed
    /\ IdleTrain
    /\ IdleStore
    /\ IdleStatic

parseFrame ==
    <<fs, dirs, fetchVars, poolVars, trainVars, storeVars, staticVars,
      folder, listing, ipc, ipos, vd_data, total_rows,
      all_data, xml_file, xml_doc>>

CallParseVdXml ==
    /\ parsed' = [op |-> "parse_vd_xml",
                  rows |-> parse_vd_xml(xml_file, xml_doc, DateKey(DateFolder))]
    /\ UNCHANGED parseFrame

CallParseEtagXml ==
    /\ parsed' = [op |-> "parse_etag_xml",
                  rows |-> parse_etag_xml(xml_file, xml_doc, DateKey(DateFolder))]
    /\ UNCHANGED parseFrame

\* download_vd_data hands the loop's hour and minute to process_vd_file_to_db
CallProcessVdFileToDb ==
    \E s \in Range(Plan({"VD"})) :
        /\ parsed' = [op |-> "process_vd_file_to_db",
                      rows |-> process_vd_file_to_db(xml_doc, DateFolder, s.hour, s.minute)]
        /\ UNCHANGED parseFrame

\* parse_xml_files' loop body on one file
CallParseXmlFile ==
    /\ parsed' = [op |-> "parse_xml_files", rows |-> ParseXmlFile(xml_doc).rows]
    /\ UNCHANGED parseFrame

NextParse ==
    \/ CallParseVdXml
    \/ CallParseEtagXml
    \/ CallProcessVdFileToDb
    \/ CallParseXmlFile

SpecParse == InitParse /\ [][NextParse]_vars

(***************************************************************************)
(* Specification of the loader's pair loop: the body of parse_xml_files    *)
(* applied to one tag-pair document.                                       *)
(***************************************************************************)
PairDocs == EtagDocs \cup FlowDocs

InitPairs ==
    /\ fs = <<>>
    /\ dirs = {}
    /\ IdleFetch
    /\ IdlePool
    /\ folder = <<>>
    /\ listing = <<>>
    /\ ipc = "idle"
    /\ ipos = 0
    /\ vd_data = <<>>
    /\ total_rows = 0
    /\ all_data = <<>>
    /\ xml_file = GoodEtagName
    /\ xml_doc \in PairDocs
    /\ parsed = NotParsed
    /\ IdleTrain
    /\ IdleStore
    /\ IdleStatic

NextPairs == CallParseXmlFile

SpecPairs == InitPairs /\ [][NextPairs]_vars

(***************************************************************************)
(* Specification of the directory importer: import_vd_data over one date   *)
(* folder of detector files.                                               *)
(***************************************************************************)
MaxFiles == 3

\* The files a download of the first slices leaves in a date folder, and a
\* leftover compressed file
ImportNames ==
    {VdName(<<"0", "0", "0", "0">>), VdName(<<"0", "0", "0", "2">>),
     VdName(<<"0", "2", "0", "0">>), VdName(<<"0", "0", "0", "0">>) \o <<".", "g", "z">>}

ImportDocs ==
    {VdDoc("schema", Elem(GoodStamp), <<GoodStation>>),
     VdDoc("schema", Elem(GoodStamp), <<>>)}

Folders ==
    UNION {[names -> ImportDocs] :
             names \in {n \in SUBSET ImportNames : Cardinality(n) <= MaxFiles}}

InitImport ==
    /\ fs = <<>>
    /\ dirs = {}
    /\ IdleFetch
    /\ IdlePool
    /\ folder \in Folders
    /\ listing = <<>>
    /\ ipc = "start"
    /\ ipos = 0
    /\ vd_data = <<>>
    /\ total_rows = 0
    /\ all_data = <<>>
    /\ xml_file = <<>>
    /\ xml_doc = NoDoc
    /\ parsed = NotParsed
    /\ IdleTrain
    /\ IdleStore
    /\ IdleStatic

importFrame ==
    <<fs, dirs, fetchVars, poolVars, trainVars, storeVars, staticVars,
      folder, all_data, xml_file, xml_doc, parsed>>

\* xml_files = [f for f in os.listdir(date_path) if f.endswith('.xml')]:
\* os.listdir returns the entries in arbitrary order
ListDir ==
    /\ ipc = "start"
    /\ listing' \in ListsOf({f \in DOMAIN folder : EndsWith(f, DotXml)})
    /\ ipc' = "files"
    /\ UNCHANGED <<importFrame, ipos, vd_data, total_rows>>

\* A loader that replaces the table by the batch
BulkInsertReplace(table, data_list, insertOk) ==
    IF data_list = <<>> \/ ~insertOk THEN [table |-> table, rows_inserted |-> 0]
    ELSE [table |-> data_list, rows_inserted |-> Len(data_list)]

\* bulk_insert_vd_data: nothing for an empty list; the rows appended and
\* counted, or 0 when the insert raised
BulkInsert(table, data_list, insertOk) ==
    IF data_list = <<>> \/ ~insertOk THEN [table |-> table, rows_inserted |-> 0]
    ELSE [table |-> table \o data_list, rows_inserted |-> Len(data_list)]

\* One pass of `for xml_file in xml_files` in import_vd_data
ImportFile ==
    /\ ipc = "files"
    /\ ipos < Len(listing)
    /\ \E insertOk \in BOOLEAN :
          LET name == listing[ipos + 1]
              data_list == parse_vd_xml(name, folder[name], DateKey(DateFolder))
              r == BulkInsert(vd_data, data_list, insertOk)
          IN  /\ (~insertOk => data_list # <<>>)
              /\ vd_data' = r.table
              /\ total_rows' = total_rows + r.rows_inserted
    /\ ipos' = ipos + 1
    /\ UNCHANGED <<importFrame, listing, ipc>>

\* The loop is over: import_vd_data returns total_rows
ImportReturn ==
    /\ ipc = "files"
    /\ ipos = Len(listing)
    /\ ipc' = "done"
    /\ UNCHANGED <<importFrame, listing, ipos, vd_data, total_rows>>

NextImport == ListDir \/ ImportFile \/ ImportReturn

SpecImport == InitImport /\ [][NextImport]_vars

(***************************************************************************)
(* Specification of the training-set loader: parse_xml_files over one date *)
(* folder of tag-pair files.                                               *)
(***************************************************************************)
LoadNames == {EtagName(<<"0", "0", "0", "0">>), EtagName(<<"0", "0", "0", "2">>)}

InitLoad ==
    /\ fs = <<>>
    /\ dirs = {}
    /\ IdleFetch
    /\ IdlePool
    /\ folder \in [LoadNames -> EtagDocs \cup {Malformed("ETag")}]
    /\ listing = <<>>
    /\ ipc = "start"
    /\ ipos = 0
    /\ vd_data = <<>>
    /\ total_rows = 0
    /\ all_data = <<>>
    /\ xml_file = <<>>
    /\ xml_doc = NoDoc
    /\ parsed = NotParsed
    /\ IdleTrain
    /\ IdleStore
    /\ IdleStatic

loadFrame ==
    <<fs, dirs, fetchVars, poolVars, trainVars, storeVars, staticVars,
      folder, vd_data, total_rows, xml_file, xml_doc,
      parsed>>

\* xml_files = glob(os.path.join(date_folder, '*.xml')): arbitrary order
GlobXml ==
    /\ ipc = "start"
    /\ listing' \in ListsOf({f \in DOMAIN folder : EndsWith(f, DotXml)})
    /\ ipc' = "files"
    /\ UNCHANGED <<loadFrame, ipos, all_data>>

\* One pass of `for xml_file in xml_files` in parse_xml_files
LoadFile ==
    /\ ipc = "files"
    /\ ipos < Len(listing)
    /\ all_data' = all_data \o ParseXmlFile(folder[listing[ipos + 1]]).rows
    /\ ipos' = ipos + 1
    /\ UNCHANGED <<loadFrame, listing, ipc>>

\* return pd.DataFrame(all_data)
LoadReturn ==
    /\ ipc = "files"
    /\ ipos = Len(listing)
    /\ ipc' = "done"
    /\ UNCHANGED <<loadFrame, listing, ipos, all_data>>

NextLoad == GlobXml \/ LoadFile \/ LoadReturn

SpecLoad == InitLoad /\ [][NextLoad]_vars

(***************************************************************************)
(* The training-set builder (src/data_load.py): the identifier index of    *)
(* _create_etag_dict and create_train_data.  A dict is the sequence of its *)
(* entries in insertion order.                                             *)
(***************************************************************************)
\* etag_dict[key] = base_info: a new key is appended, a key already present
\* keeps its place and takes the new value
DictSet(d, key, index) ==
    IF \E i \in DOMAIN d : d[i].key = key
    THEN [i \in DOMAIN d |-> IF d[i].key = key THEN [key |-> key, index |-> index] ELSE d[i]]
    ELSE Append(d, [key |-> key, index |-> index])

\* d.get(key, {}).get('index', -1)
DictGet(d, key) ==
    IF \E i \in DOMAIN d : d[i].key = key
    THEN d[CHOOSE i \in DOMAIN d : d[i].key = key].index
    ELSE -1

RECURSIVE DictSetAll(_, _, _)
DictSetAll(d, keys, index) ==
    IF keys = <<>> THEN d
    ELSE DictSetAll(DictSet(d, Head(keys), index), Tail(keys), index)

\* s.ljust(n, c)
LJust(s, n, c) == IF Len(s) >= n THEN s ELSE s \o [i \in 1 .. (n - Len(s)) |-> c]

\* The keys _create_etag_dict assigns for one reference row, in order: the
\* native identifier, then for '<prefix>-<number><direction>' the compact
\* form, the short form and, for a prefix starting with '0', the forms
\* under the prefixes 01F, 03F, 1F and 3F
RowKeys(original_id) ==
    LET parts == Split(original_id, "-")
        prefix == parts[1]
        suffix_with_dir == parts[2]
        direction == <<suffix_with_dir[Len(suffix_with_dir)]>>
        number == LJust(RemoveAll(Slice(suffix_with_dir, 0, Len(suffix_with_dir) - 1),
                                  <<".">>), 4, "0")
        xml_format == prefix \o Slice(number, 0, 4) \o direction
        xml_format_3digit == Slice(prefix, 1, Len(prefix)) \o Slice(number, 0, 3) \o direction
        alt_formats == [i \in 1 .. 4 |->
                           <<<<"0", "1", "F">>, <<"0", "3", "F">>, <<"1", "F">>, <<"3", "F">>>>[i]
                               \o Slice(number, 0, 4) \o direction]
    IN  IF ~Contains(original_id, <<"-">>) \/ Len(parts) # 2 THEN <<original_id>>
        ELSE IF ~(Contains(suffix_with_dir, <<"N">>) \/ Contains(suffix_with_dir, <<"S">>))
        THEN <<original_id>>
        ELSE <<original_id, xml_format, xml_format_3digit>>
                 \o (IF prefix # <<>> /\ prefix[1] = "0" THEN alt_formats ELSE <<>>)

Letters ==
    {"A", "B", "C", "D", "E", "F", "G", "H", "I", "J", "K", "L", "M", "N", "O", "P", "Q",
     "R", "S", "T", "U", "V", "W", "X", "Y", "Z"}

\* ''.join(filter(str.isalnum, s))
AlnumOnly(s) == SelectSeq(s, LAMBDA c : c \in Digits \cup Letters)

\* simplified_etag_dict: the entries of etag_dict re-keyed by AlnumOnly, in
\* the dict's order
RECURSIVE Simplified(_, _)
Simplified(d, acc) ==
    IF d = <<>> THEN acc
    ELSE Simplified(Tail(d), DictSet(acc, AlnumOnly(Head(d).key), Head(d).index))

\* A column built position by position, held as a list
AsList(f) == f \o <<>>

\* Lexicographic order of two tuples of numbers of equal length
KeyLess(a, b) ==
    \E i \in DOMAIN a : a[i] < b[i] /\ \A j \in 1 .. (i - 1) : a[j] = b[j]

\* DataFrame.sort_values over several columns, keys[i] holding the values
\* of rows[i] in those columns: ascending, rows with equal keys stay in
\* their order
SortValues(rows, keys) ==
    LET n == Len(rows)
        key == AsList(keys)
        rank == AsList([i \in 1 .. n |->
                           1 + Cardinality({j \in 1 .. n :
                                              \/ KeyLess(key[j], key[i])
                                              \/ key[j] = key[i] /\ j < i})])
        order == AsList([p \in 1 .. n |-> CHOOSE i \in 1 .. n : rank[i] = p])
    IN  AsList([p \in 1 .. n |-> rows[order[p]]])

\* Series.unique(): the values in order of first appearance
Unique(s) ==
    LET col == AsList(s)
        firsts == {i \in DOMAIN col : \A j \in 1 .. (i - 1) : col[j] # col[i]}
        nth == AsList([p \in 1 .. Cardinality(firsts) |->
                          CHOOSE i \in firsts : Cardinality({j \in firsts : j < i}) = p - 1])
    IN  AsList([p \in 1 .. Cardinality(firsts) |-> col[nth[p]]])

\* The 'datetime' column of a row
DateTimeOf(row) == <<row.day, row.hour, row.minute>>

\* flow_data['station_id'] = flow_data['etag_id'].map(...): the lookup of
\* the identifier as it is, or of its alphanumeric characters
WithStation(rows, d, reduce) ==
    AsList([i \in DOMAIN rows |->
               [etag_id |-> rows[i].etag_id, day |-> rows[i].day, hour |-> rows[i].hour,
                minute |-> rows[i].minute, flow |-> rows[i].flow,
                station_id |-> DictGet(d, IF reduce THEN AlnumOnly(rows[i].etag_id)
                                          ELSE rows[i].etag_id)]])

\* The frame with the unresolved rows left in
ValidDataUnfiltered(rows) == rows

\* flow_data[flow_data['station_id'] != -1]
ValidData(rows) == SelectSeq(rows, LAMBDA r : r.station_id # -1)

\* unique_times[:100]
TimeCap == 100

\* The loop over unique_times[:100] x unique_stations: for each combination
\* the first matching row of valid_data, or a row of flow 0
FullData(valid_data) ==
    LET unique_times == Unique([i \in DOMAIN valid_data |-> DateTimeOf(valid_data[i])])
        unique_stations == Unique([i \in DOMAIN valid_data |-> valid_data[i].station_id])
        nt == Min(Len(unique_times), TimeCap)
        ns == Len(unique_stations)
    IN  AsList([p \in 1 .. (nt * ns) |->
                   LET time == unique_times[((p - 1) \div ns) + 1]
                       station == unique_stations[((p - 1) % ns) + 1]
                       mask == SelectSeq(valid_data,
                                         LAMBDA r : DateTimeOf(r) = time
                                                    /\ r.station_id = station)
                   IN  [station_id |-> station, date |-> time[1], day |-> time[1],
                        hour |-> time[2], minute |-> time[3],
                        flow |-> IF mask # <<>> THEN mask[1].flow ELSE 0]])

NoFrame == <<>>

\* The columns named in the final sort, with the station first
ResultKeyStationFirst(row) == <<row.station_id, row.date, row.hour, row.minute>>

\* The columns of result_df.sort_values(['date', 'hour', 'minute', 'station_id'])
ResultKey(row) == <<row.date, row.hour, row.minute, row.station_id>>

\* create_train_data on the rows parse_xml_files returned: the flow_data
\* frame with its station_id column, the warnings printed, and the frame
\* returned and written to train.csv
create_train_data(d, parsed_rows) ==
    LET exact == WithStation(parsed_rows, d, FALSE)
        unknown == SelectSeq(exact, LAMBDA r : r.station_id = -1)
        unknown_etags == Unique([i \in DOMAIN unknown |-> unknown[i].etag_id])
        warned == IF Len(unknown_etags) > 0
                  THEN <<[msg |-> "unknown_etags", n |-> Len(unknown_etags)]>> ELSE <<>>
        fuzzy == ValidData(exact) = <<>>
        mapped == IF fuzzy THEN WithStation(parsed_rows, Simplified(d, <<>>), TRUE)
                  ELSE exact
        valid == ValidData(mapped)
        valid_data == SortValues(valid, [i \in DOMAIN valid |->
                                            DateTimeOf(valid[i]) \o <<valid[i].station_id>>])
        full_data == FullData(valid_data)
    IN  IF parsed_rows = <<>>
        THEN [flow_data |-> <<>>, printed |-> <<[msg |-> "no_data", n |-> 0]>>,
              result_df |-> NoFrame]
        ELSE IF valid_data = <<>>
        THEN [flow_data |-> mapped,
              printed |-> warned \o <<[msg |-> "fuzzy", n |-> 0], [msg |-> "no_match", n |-> 0]>>,
              result_df |-> NoFrame]
        ELSE [flow_data |-> mapped,
              printed |-> warned \o (IF fuzzy THEN <<[msg |-> "fuzzy", n |-> Len(valid_data)]>>
                                     ELSE <<>>),
              result_df |-> SortValues(full_data,
                                       [i \in DOMAIN full_data |-> ResultKey(full_data[i])])]

(***************************************************************************)
(* Specification of the training-set builder: _create_etag_dict over a     *)
(* reference table, then create_train_data over the rows parse_xml_files   *)
(* returned.                                                               *)
(***************************************************************************)
MaxRows == 2

MaxObs == 2

\* Native identifiers of the reference table ('編號.1')
RefIds ==
    {<<"0", "1", "F", "-", "0", "2", "9", ".", "3", "N">>,
     <<"0", "3", "F", "-", "0", "2", "9", ".", "3", "N">>,
     <<"0", "1", "F", "-", "0", "2", "9", ".", "5", "N">>,
     <<"0", "5", "F", "-", "1", ".", "2", "S">>,
     <<"X">>}

\* Reference tables: up to MaxRows rows with distinct native identifiers
RefTables ==
    {t \in SeqUpTo(RefIds, MaxRows) : \A i, j \in DOMAIN t : i # j => t[i] # t[j]}

Bucket1 == [day |-> 1, hour |-> 8, minute |-> 30]

Bucket2 == [day |-> 1, hour |-> 8, minute |-> 35]

Bucket3 == [day |-> 2, hour |-> 0, minute |-> 0]

ObsPair(start_etag, end_etag, start_datetime, flow) ==
    [start_etag |-> start_etag, end_etag |-> end_etag, start_datetime |-> start_datetime,
     flow |-> flow]

\* Pair observations: identifiers in compact form, one that matches an
\* indexed identifier only without its punctuation, and unknown ones
ObsPairs ==
    {ObsPair(<<"0", "1", "F", "0", "2", "9", "3", "N">>,
             <<"0", "1", "F", "0", "2", "9", "5", "N">>, Bucket1, 2),
     ObsPair(<<"0", "1", "F", "0", "2", "9", "5", "N">>,
             <<"0", "1", "F", "0", "2", "9", "3", "N">>, Bucket1, 5),
     ObsPair(<<"0", "1", "F", "0", "2", "9", "3", "N">>,
             <<"0", "1", "F", "0", "2", "9", "5", "N">>, Bucket2, 3),
     ObsPair(<<"0", "1", "F", "0", "2", "9", ".", "3", "N">>, <<"9", "9", "X">>, Bucket1, 4),
     ObsPair(<<"9", "9", "X">>, <<"9", "9", "Y">>, Bucket3, 2),
     ObsPair(<<"0", "5", "F", "1", "2", "0", "0", "S">>,
             <<"0", "1", "F", "0", "2", "9", "3", "N">>, Bucket3, 1)}

\* The rows parse_xml_files appends for the observations: one for the start
\* and one for the end of each pair
RECURSIVE ObsRows(_)
ObsRows(obs) ==
    IF obs = <<>> THEN <<>>
    ELSE LET o == Head(obs)
             data_row == [etag_id |-> o.start_etag, day |-> o.start_datetime.day,
                          hour |-> o.start_datetime.hour,
                          minute |-> o.start_datetime.minute, flow |-> o.flow]
         IN  <<data_row, [data_row EXCEPT !.etag_id = o.end_etag]>> \o ObsRows(Tail(obs))

Observations == {ObsRows(obs) : obs \in SeqUpTo(ObsPairs, MaxObs)}

InitTrain ==
    /\ fs = <<>>
    /\ dirs = {}
    /\ IdleFetch
    /\ IdlePool
    /\ IdleXml
    /\ etag_info \in RefTables
    /\ idx = 0
    /\ etag_dict = <<>>
    /\ flow_data = <<>>
    /\ printed = <<>>
    /\ result_df = NoFrame
    /\ tpc = "index"
    /\ IdleStore
    /\ IdleStatic

trainFrame == <<fs, dirs, fetchVars, poolVars, xmlVars, etag_info, storeVars,
               staticVars>>

\* One pass of `for idx, row in self.etag_info.iterrows()`
IndexRow ==
    /\ tpc = "index"
    /\ idx < Len(etag_info)
    /\ etag_dict' = DictSetAll(etag_dict, RowKeys(etag_info[idx + 1]), idx)
    /\ idx' = idx + 1
    /\ UNCHANGED <<trainFrame, flow_data, printed, result_df, tpc>>

\* The loop is over: the two totals are printed and the dict is returned
IndexReturn ==
    /\ tpc = "index"
    /\ idx = Len(etag_info)
    /\ printed' = printed \o
          <<[msg |-> "unique_stations",
             n |-> Cardinality({etag_dict[i].index : i \in DOMAIN etag_dict})],
            [msg |-> "variations", n |-> Len(etag_dict)]>>
    /\ tpc' = "ready"
    /\ UNCHANGED <<trainFrame, idx, etag_dict, flow_data, result_df>>

\* create_train_data as a whole; parse_xml_files, which it calls first,
\* returns any of Observations
CreateTrainData ==
    /\ tpc = "ready"
    /\ \E parsed_rows \in Observations :
          LET r == create_train_data(etag_dict, parsed_rows)
          IN  /\ flow_data' = r.flow_data
              /\ printed' = printed \o r.printed
              /\ result_df' = r.result_df
    /\ tpc' = "done"
    /\ UNCHANGED <<trainFrame, idx, etag_dict>>

NextTrain == IndexRow \/ IndexReturn \/ CreateTrainData

SpecTrain == InitTrain /\ [][NextTrain]_vars

(***************************************************************************)
(* The training-set builder over the files of a morning: one pair          *)
(* observation in every five-minute file.                                  *)
(***************************************************************************)
\* The time of the i-th five-minute file of the day
FileTime(i) == [day |-> 1, hour |-> (i - 1) \div 12, minute |-> ((i - 1) % 12) * 5]

\* The rows parse_xml_files appends for the first n files, each holding the
\* same pair: one row for the start and one for the end of the pair
DayRows(n) ==
    [k \in 1 .. (2 * n) |->
        LET time == FileTime((k + 1) \div 2)
        IN  [etag_id |-> IF k % 2 = 1 THEN <<"0", "1", "F", "0", "2", "9", "3", "N">>
                         ELSE <<"0", "1", "F", "0", "2", "9", "5", "N">>,
             day |-> time.day, hour |-> time.hour, minute |-> time.minute, flow |-> 2]]

\* Runs of one file, of as many files as the loop over unique_times takes,
\* and of one more
DayObservations == {DayRows(n) : n \in {1, TimeCap, TimeCap + 1}}

\* create_train_data as a whole over the files of a morning
CreateTrainDataDay ==
    /\ tpc = "ready"
    /\ \E parsed_rows \in DayObservations :
          LET r == create_train_data(etag_dict, parsed_rows)
          IN  /\ flow_data' = r.flow_data
              /\ printed' = printed \o r.printed
              /\ result_df' = r.result_df
    /\ tpc' = "done"
    /\ UNCHANGED <<trainFrame, idx, etag_dict>>

NextGrid == IndexRow \/ IndexReturn \/ CreateTrainDataDay

SpecGrid == InitTrain /\ [][NextGrid]_vars

(***************************************************************************)
(* The store: the collector's process_*_file_to_db and the importer's      *)
(* import_all_data with its bulk inserts.  Both write the tables vd_data   *)
(* and etag_data.                                                          *)
(***************************************************************************)
MaxTable == 3

\* One ETagPairLive element of process_etag_file_to_db: raising, or one row.
\* The feed's pair elements carry ETagPairID, not PairID, so pair_id falls
\* back to "unknown".
CollectorPairRow(pair, date, hour, minute) ==
    LET travel_time == IntOf(TextOr(pair.TravelTime, <<"0">>))
    IN  IF ~travel_time.ok THEN ParseFailed
        ELSE ParseOk(<<[pair_id |-> Unknown,
                        travel_time |-> travel_time.val,
                        date |-> date,
                        hour |-> hour,
                        minute |-> minute]>>)

RECURSIVE CollectorPairRows(_, _, _, _)
CollectorPairRows(pairs, date, hour, minute) ==
    IF pairs = <<>> THEN ParseOk(<<>>)
    ELSE LET first == CollectorPairRow(Head(pairs), date, hour, minute)
             rest == CollectorPairRows(Tail(pairs), date, hour, minute)
         IN  IF ~first.ok \/ ~rest.ok THEN ParseFailed
             ELSE ParseOk(first.rows \o rest.rows)

\* FreewayDataCollector.process_etag_file_to_db up to the insert: the rows of
\* etag_data_list, nothing when the outer handler caught an exception
process_etag_file_to_db(doc, date, hour, minute) ==
    IF ~doc.wellformed \/ doc.ns = "none" THEN <<>>
    ELSE LET update_time == IF doc.UpdateTime.present
                            THEN (IF doc.UpdateTime.text = <<>>
                                  THEN [ok |-> FALSE, day |-> 0, hour |-> 0, minute |-> 0]
                                  ELSE FromIsoFormat(doc.UpdateTime.text))
                            ELSE [ok |-> TRUE, day |-> 0, hour |-> 0, minute |-> 0]
             r == CollectorPairRows(doc.pairs, date, hour, minute)
         IN  IF ~update_time.ok \/ ~r.ok THEN <<>> ELSE r.rows

\* What the database does with the collector's batch: "ok", the connection
\* cannot be made, the insert or the commit fails, or the connection is lost
\* during the insert
InsertOutcomes == {"ok", "no_connection", "insert_failed", "lost"}

\* A collector that returns without closing its connection
CloseDbConnectionSkipped(open) == open

\* close_db_connection(conn): `if connection and connection.is_connected():
\* connection.close()`
CloseDbConnection(open) == open - 1

\* An insert part that opens its connection before looking at the batch
CollectorInsertConnectsFirst(table, open, data_list, outcome) ==
    IF outcome = "no_connection"
    THEN [table |-> table, open |-> open, opened |-> 0, ret |-> 0]
    ELSE IF data_list = <<>> \/ outcome # "ok"
    THEN [table |-> table, open |-> CloseDbConnection(open + 1), opened |-> 1, ret |-> 0]
    ELSE [table |-> table \o data_list, open |-> CloseDbConnection(open + 1),
          opened |-> 1, ret |-> Len(data_list)]

\* The insert part of process_vd_file_to_db / process_etag_file_to_db:
\* `if data_list:` get_db_connection, executemany, commit and return
\* len(data_list); on an exception rollback; finally close; then return 0.
\* Without a connection conn is None, conn.cursor() raises, and the outer
\* handler returns 0.  A connection that was lost is no longer open and
\* close_db_connection leaves it alone.
CollectorInsert(table, open, data_list, outcome) ==
    IF data_list = <<>> \/ outcome = "no_connection"
    THEN [table |-> table, open |-> open, opened |-> 0, ret |-> 0]
    ELSE IF outcome = "ok"
    THEN [table |-> table \o data_list, open |-> CloseDbConnection(open + 1),
          opened |-> 1, ret |-> Len(data_list)]
    ELSE IF outcome = "insert_failed"
    THEN [table |-> table, open |-> CloseDbConnection(open + 1), opened |-> 1, ret |-> 0]
    ELSE [table |-> table, open |-> open, opened |-> 1, ret |-> 0]

\* self.connection.close() and self.engine.dispose(): the importer's
\* connection and the connections of the engine's pool are closed
CloseConnection(open) == 0

\* df.to_sql(table, self.engine): the engine checks a connection out of its
\* pool, opening one when the pool holds none, and checks it in again
EngineCheckout(open) == IF open = 1 THEN open + 1 ELSE open

\* The documents the store operations are fed: no document, and documents
\* with up to MaxStations complete stations or MaxPairs complete pairs
StoreVdDocs ==
    {Malformed("VD")}
        \cup {VdDoc("schema", Elem(GoodStamp), st) :
                st \in SeqUpTo({GoodStation}, MaxStations)}

StoreEtagDocs ==
    {Malformed("ETag")}
        \cup {EtagDoc("schema", Elem(GoodStamp), ps) : ps \in SeqUpTo({GoodPair}, MaxPairs)}

\* An empty database, and either a collector (ipc = "idle") or an importer
\* (ipc = "new"): the two are separate programs, a run is one of them
InitStore ==
    /\ fs = <<>>
    /\ dirs = {}
    /\ IdleFetch
    /\ cfg \in [use_db : BOOLEAN, is_temp : {FALSE}, max_workers : {1}, data_types : {{}}]
    /\ dates = <<>>
    /\ queue = <<>>
    /\ task = [d \in DateSet |-> NoTask]
    /\ log = [d \in DateSet |-> <<>>]
    /\ lastWrite = [date |-> "", paths |-> {}]
    /\ db = <<>>
    /\ collected = {}
    /\ total_files = 0
    /\ mainPc = "idle"
    /\ folder = <<>>
    /\ listing = <<>>
    /\ ipc \in {"idle", "new"}
    /\ (ipc = "new" => ~cfg.use_db)
    /\ ipos = 0
    /\ vd_data = <<>>
    /\ total_rows = 0
    /\ all_data = <<>>
    /\ xml_file = <<>>
    /\ xml_doc = NoDoc
    /\ parsed = NotParsed
    /\ IdleTrain
    /\ IdleStore
    /\ IdleStatic

storeFrame ==
    <<fs, dirs, fetchVars, poolVars, trainVars, staticVars, folder, listing, ipos, all_data,
      xml_file, xml_doc, parsed, init_db>>

\* The collector's process_vd_file_to_db(xml_file, date, hour, minute)
ProcessVdFileToDb ==
    /\ ipc = "idle"
    /\ \E doc \in StoreVdDocs, outcome \in InsertOutcomes :
          LET data_list == IF cfg.use_db
                           THEN process_vd_file_to_db(doc, "20240101", 0, 0) ELSE <<>>
              r == CollectorInsert(vd_data, conns, data_list, outcome)
          IN  /\ (outcome # "ok" => data_list # <<>>)
              /\ Len(r.table) <= MaxTable
              /\ vd_data' = r.table
              /\ conns' = r.open
              /\ load_ret' = [op |-> "process_vd_file_to_db", batch |-> data_list,
                              ret |-> r.ret, outcome |-> outcome, opened |-> r.opened]
    /\ UNCHANGED <<storeFrame, ipc, total_rows, etag_data>>

\* The collector's process_etag_file_to_db(xml_file, date, hour, minute)
ProcessEtagFileToDb ==
    /\ ipc = "idle"
    /\ \E doc \in StoreEtagDocs, outcome \in InsertOutcomes :
          LET data_list == IF cfg.use_db
                           THEN process_etag_file_to_db(doc, "20240101", 0, 0) ELSE <<>>
              r == CollectorInsert(etag_data, conns, data_list, outcome)
          IN  /\ (outcome # "ok" => data_list # <<>>)
              /\ Len(r.table) <= MaxTable
              /\ etag_data' = r.table
              /\ conns' = r.open
              /\ load_ret' = [op |-> "process_etag_file_to_db", batch |-> data_list,
                              ret |-> r.ret, outcome |-> outcome, opened |-> r.opened]
    /\ UNCHANGED <<storeFrame, ipc, total_rows, vd_data>>

\* What import_all_data returned, as the last store operation
ImportResult(ok, outcome) ==
    [op |-> "import_all_data", batch |-> <<>>, ret |-> ok, outcome |-> outcome, opened |-> 0]

\* import_all_data: `if not self.connect_to_database(): return False`
ConnectToDatabase ==
    /\ ipc \in {"new", "returned"}
    /\ \E connectOk \in BOOLEAN :
          IF connectOk
          THEN /\ conns' = conns + 1
               /\ ipc' = "connected"
               /\ load_ret' = [op |-> "connect_to_database", batch |-> <<>>, ret |-> TRUE,
                               outcome |-> "ok", opened |-> 1]
          ELSE /\ conns' = conns
               /\ ipc' = "returned"
               /\ load_ret' = ImportResult(FALSE, "no_connection")
    /\ total_rows' = 0
    /\ UNCHANGED <<storeFrame, vd_data, etag_data>>

\* import_all_data: `if not self.create_tables_if_not_exist(): return False`,
\* which leaves through the finally clause
CreateTablesIfNotExist ==
    /\ ipc = "connected"
    /\ \E tablesOk \in BOOLEAN :
          IF tablesOk
          THEN /\ ipc' = "importing"
               /\ UNCHANGED <<conns, load_ret>>
          ELSE /\ conns' = CloseConnection(conns)
               /\ ipc' = "returned"
               /\ load_ret' = ImportResult(FALSE, "no_tables")
    /\ UNCHANGED <<storeFrame, vd_data, etag_data, total_rows>>

\* bulk_insert_vd_data(data_list), as import_vd_data calls it for a file
BulkInsertVdData ==
    /\ ipc = "importing"
    /\ \E doc \in StoreVdDocs, insertOk \in BOOLEAN :
          LET data_list == parse_vd_xml(GoodVdName, doc, DateKey(DateFolder))
              r == BulkInsert(vd_data, data_list, insertOk)
          IN  /\ (~insertOk => data_list # <<>>)
              /\ Len(r.table) <= MaxTable
              /\ vd_data' = r.table
              /\ total_rows' = total_rows + r.rows_inserted
              /\ conns' = IF data_list = <<>> THEN conns ELSE EngineCheckout(conns)
              /\ load_ret' = [op |-> "bulk_insert_vd_data", batch |-> data_list,
                              ret |-> r.rows_inserted,
                              outcome |-> IF insertOk THEN "ok" ELSE "insert_failed",
                              opened |-> IF data_list = <<>> THEN 0
                                         ELSE EngineCheckout(conns) - conns]
    /\ UNCHANGED <<storeFrame, ipc, etag_data>>

\* bulk_insert_etag_data(data_list), as import_etag_data calls it for a file
BulkInsertEtagData ==
    /\ ipc = "importing"
    /\ \E doc \in StoreEtagDocs, insertOk \in BOOLEAN :
          LET data_list == parse_etag_xml(GoodEtagName, doc, DateKey(DateFolder))
              r == BulkInsert(etag_data, data_list, insertOk)
          IN  /\ (~insertOk => data_list # <<>>)
              /\ Len(r.table) <= MaxTable
              /\ etag_data' = r.table
              /\ total_rows' = total_rows + r.rows_inserted
              /\ conns' = IF data_list = <<>> THEN conns ELSE EngineCheckout(conns)
              /\ load_ret' = [op |-> "bulk_insert_etag_data", batch |-> data_list,
                              ret |-> r.rows_inserted,
                              outcome |-> IF insertOk THEN "ok" ELSE "insert_failed",
                              opened |-> IF data_list = <<>> THEN 0
                                         ELSE EngineCheckout(conns) - conns]
    /\ UNCHANGED <<storeFrame, ipc, vd_data>>

\* import_all_data: an exception during the import is caught, False is
\* returned, and the finally clause closes the connection
ImportAllDataRaise ==
    /\ ipc = "importing"
    /\ conns' = CloseConnection(conns)
    /\ ipc' = "returned"
    /\ load_ret' = ImportResult(FALSE, "raised")
    /\ UNCHANGED <<storeFrame, vd_data, etag_data, total_rows>>

\* import_all_data: the imports are over, True is returned, and the finally
\* clause closes the connection
ImportAllDataReturn ==
    /\ ipc = "importing"
    /\ conns' = CloseConnection(conns)
    /\ ipc' = "returned"
    /\ load_ret' = ImportResult(TRUE, "ok")
    /\ UNCHANGED <<storeFrame, vd_data, etag_data, total_rows>>

NextStore ==
    \/ ProcessVdFileToDb
    \/ ProcessEtagFileToDb
    \/ ConnectToDatabase
    \/ CreateTablesIfNotExist
    \/ BulkInsertVdData
    \/ BulkInsertEtagData
    \/ ImportAllDataRaise
    \/ ImportAllDataReturn

SpecStore == InitStore /\ [][NextStore]_vars

(***************************************************************************)
(* A collector from its construction: __init__ with init_database, then    *)
(* the download of one date.                                               *)
(***************************************************************************)
\* A collector about to be constructed; cfg.use_db is the use_db argument
\* (a db_config is given)
InitRun ==
    /\ fs = <<>>
    /\ dirs = {}
    /\ IdleFetch
    /\ IdleXml
    /\ IdleTrain
    /\ IdleStore
    /\ IdleStatic
    /\ cfg \in [use_db : BOOLEAN, is_temp : BOOLEAN, max_workers : {1},
                data_types : {{"VD"}, {"ETag"}}]
    /\ dates = <<"20240101">>
    /\ queue = <<>>
    /\ task = [d \in DateSet |-> NoTask]
    /\ log = [d \in DateSet |-> <<>>]
    /\ lastWrite = [date |-> "", paths |-> {}]
    /\ db = <<>>
    /\ collected = {}
    /\ total_files = 0
    /\ mainPc = "new"

\* FreewayDataCollector.__init__: `if use_db and db_config:
\* self.init_database()`.  init_database returns True, or on any exception
\* logs it, sets self.use_db = False and returns False; __init__ ignores the
\* value.
Construct ==
    /\ mainPc = "new"
    /\ IF cfg.use_db
       THEN \E initOk \in BOOLEAN :
               /\ init_db' = IF initOk THEN "ok" ELSE "failed"
               /\ cfg' = [cfg EXCEPT !.use_db = initOk]
       ELSE UNCHANGED <<init_db, cfg>>
    /\ mainPc' = "idle"
    /\ UNCHANGED <<xmlVars, trainVars, staticVars, fs, dirs, fetchVars, dates, queue, task,
                   log, lastWrite, db, collected, total_files, conns, load_ret, etag_data>>

NextRun == Construct \/ NextDate

SpecRun == InitRun /\ [][NextRun]_vars

(***************************************************************************)
(* download_static_data, in the collector (src/test.py) and in the         *)
(* downloader (src/highway_data/getNetData.py).                            *)
(***************************************************************************)
\* One download_file call of download_static_data: the key it fills, the
\* resource its url names and the file name of its save path
StaticCall(key, url, path) == [key |-> key, url |-> url, path |-> path]

\* The calls of the downloader's download_static_data, in order
DownloaderStaticCalls ==
    <<StaticCall("vd", "VD_0000", "VD_0000.xml"),
      StaticCall("etag", "ETag_0000", "ETag_0000.xml"),
      StaticCall("etag_pair", "ETagPair_0000", "ETagPair_0000.xml"),
      StaticCall("section", "Section_0000", "Section_0000.xml"),
      StaticCall("section_shape", "SectionShape_0000", "SectionShape_0000.xml"),
      StaticCall("congestion", "CongestionLevel_0000", "CongestionLevel_0000.xml")>>

\* The calls of the collector's download_static_data, in order: the fifth
\* call passes section_url and section_path
CollectorStaticCalls ==
    <<StaticCall("vd", "VD_0000", "VD_0000.xml"),
      StaticCall("etag", "ETag_0000", "ETag_0000.xml"),
      StaticCall("etag_pair", "ETagPair_0000", "ETagPair_0000.xml"),
      StaticCall("section", "Section_0000", "Section_0000.xml"),
      StaticCall("section_shape", "Section_0000", "Section_0000.xml"),
      StaticCall("congestion", "CongestionLevel_0000", "CongestionLevel_0000.xml"),
      StaticCall("cctv", "CCTV_0000", "CCTV_0000.xml")>>

StaticResources ==
    {"VD_0000", "ETag_0000", "ETagPair_0000", "Section_0000", "SectionShape_0000",
     "CongestionLevel_0000", "CCTV_0000"}

\* save_dir = os.path.join(base_dir or temp_dir, "Static", date), and the
\* file below it
StaticPath(isTemp, date, name) == <<IF isTemp THEN "temp" ELSE "base", "Static", date, name>>

\* What the upstream answers for a resource: the resource as a gzip member
\* when it is served, HTTP 404 otherwise
StaticResponse(served, url) ==
    IF url \in served THEN [kind |-> "ok", body |-> GzipCompress(<<"a">>)]
    ELSE [kind |-> "http_error", body |-> <<>>]

\* static_files[key] = result
StaticSet(files, key, result) ==
    [k \in DOMAIN files \cup {key} |-> IF k = key THEN result ELSE files[k]]

\* The calls of download_static_data one after the other: download_file,
\* then `if result: static_files[key] = result`
RECURSIVE StaticDownloads(_, _, _, _, _)
StaticDownloads(calls, st, isTemp, date, served) ==
    IF calls = <<>> THEN st
    ELSE LET c == Head(calls)
             r == DownloadFile(st.fs, st.dirs, TRUE, StaticPath(isTemp, date, c.path),
                               isTemp, StaticResponse(served, c.url))
         IN  StaticDownloads(Tail(calls),
                             [fs |-> r.fs,
                              dirs |-> r.dirs,
                              static_files |-> IF Truthy(r.ret)
                                               THEN StaticSet(st.static_files, c.key, r.ret.val)
                                               ELSE st.static_files,
                              requests |-> Append(st.requests, c.url)],
                             isTemp, date, served)

InitStatic ==
    /\ fs = <<>>
    /\ dirs = {}
    /\ IdleFetch
    /\ IdlePool
    /\ IdleXml
    /\ IdleTrain
    /\ IdleStore
    /\ IdleStatic

staticFrame == <<fetchVars, poolVars, xmlVars, trainVars, storeVars>>

\* download_static_data(date) as a whole, on an empty tree, for any set of
\* resources the upstream serves
DownloadStaticData(calls, isTemp) ==
    /\ requests = <<>>
    /\ \E served \in SUBSET StaticResources :
          LET date == "20240101"
              st == StaticDownloads(calls,
                                    [fs |-> fs,
                                     dirs |-> dirs \cup {DirName(StaticPath(isTemp, date, ""))},
                                     static_files |-> <<>>, requests |-> <<>>],
                                    isTemp, date, served)
          IN  /\ fs' = st.fs
              /\ dirs' = st.dirs
              /\ static_files' = st.static_files
              /\ requests' = st.requests
    /\ UNCHANGED staticFrame

NextStatic ==
    \/ \E isTemp \in BOOLEAN : DownloadStaticData(CollectorStaticCalls, isTemp)
    \/ DownloadStaticData(DownloaderStaticCalls, FALSE)

SpecStatic == InitStatic /\ [][NextStatic]_vars

(***************************************************************************)
(* extract_etag_data (src/highway_data/etag.py): the pair elements of one  *)
(* document split by direction of travel.                                  *)
(***************************************************************************)
\* The mileage span of `447 <= start_km <= 1022 and 447 <= end_km <= 1022`
MinKm == 447
MaxKm == 1022
\* (\d{4}): the number of mileage digits in the pattern
KmDigits == 4

\* r'01F(\d{4})([NS])-01F(\d{4})([NS])' matched at the start of s: one tag
TagMatch(s) ==
    /\ Len(s) >= 3 + KmDigits + 1
    /\ SubSeq(s, 1, 3) = <<"0", "1", "F">>
    /\ \A i \in 4 .. (3 + KmDigits) : s[i] \in Digits
    /\ s[3 + KmDigits + 1] \in {"N", "S"}

\* etag_pattern.match(etag_pair_id): whether it matched, and the two
\* mileages int(match.group(1)) and int(match.group(3))
EtagPatternMatch(s) ==
    LET n == 3 + KmDigits + 1
        second == SubSeq(s, n + 2, Len(s))
    IN  IF Len(s) >= 2 * n + 1 /\ TagMatch(s) /\ s[n + 1] = "-" /\ TagMatch(second)
        THEN [ok |-> TRUE,
              start_km |-> DecimalValue(SubSeq(s, 4, 3 + KmDigits), 0),
              end_km |-> DecimalValue(SubSeq(second, 4, 3 + KmDigits), 0)]
        ELSE [ok |-> FALSE, start_km |-> 0, end_km |-> 0]

\* A span that leaves its end points out
InSpanExclusive(km) == MinKm < km /\ km < MaxKm

\* 447 <= km <= 1022
InSpan(km) == MinKm <= km /\ km <= MaxKm

\* ET.tostring(etag_pair_live, encoding='unicode'): the element as text
ElementText(pair) == [tag |-> "ETagPairLive", ETagPairID |-> pair.ETagPairID.text]

NoLists == [raise |-> FALSE, yangmei_to_hsinchu |-> <<>>, hsinchu_to_yangmei |-> <<>>]

\* The loop over the ETagPairLive elements.  An ETagPairID element without
\* text has text None, and etag_pattern.match(None) raises TypeError.
RECURSIVE ExtractPairs(_, _)
ExtractPairs(pairs, acc) ==
    IF pairs = <<>> THEN acc
    ELSE LET pair == Head(pairs)
             match == EtagPatternMatch(pair.ETagPairID.text)
         IN  IF ~pair.ETagPairID.present THEN ExtractPairs(Tail(pairs), acc)
             ELSE IF pair.ETagPairID.text = <<>> THEN [acc EXCEPT !.raise = TRUE]
             ELSE IF ~match.ok \/ ~InSpan(match.start_km) \/ ~InSpan(match.end_km)
             THEN ExtractPairs(Tail(pairs), acc)
             ELSE IF match.start_km < match.end_km
             THEN ExtractPairs(Tail(pairs),
                               [acc EXCEPT !.yangmei_to_hsinchu = Append(@, ElementText(pair))])
             ELSE IF match.start_km > match.end_km
             THEN ExtractPairs(Tail(pairs),
                               [acc EXCEPT !.hsinchu_to_yangmei = Append(@, ElementText(pair))])
             ELSE ExtractPairs(Tail(pairs), acc)

\* extract_etag_data(xml_file_path): ET.parse raises on a file that is not
\* XML; findall with the schema namespace finds nothing in another namespace
extract_etag_data(doc) ==
    IF ~doc.wellformed THEN [NoLists EXCEPT !.raise = TRUE]
    ELSE IF doc.ns # "schema" THEN NoLists
    ELSE ExtractPairs(doc.pairs, NoLists)

\* Mileages around the two ends of the span
KmTexts ==
    {<<"0", "4", "4", "6">>, <<"0", "4", "4", "7">>, <<"1", "0", "2", "2">>,
     <<"1", "0", "2", "3">>}

PairId(road, start_km, end_km, dir) ==
    road \o start_km \o <<dir, "-">> \o road \o end_km \o <<dir>>

\* Pair identifiers: every pair of mileages on 01F, and identifiers the
\* pattern rejects or accepts at its edges (another road, three digits, a
\* lower-case direction, text after the match)
PairIds ==
    {PairId(<<"0", "1", "F">>, a, b, "N") : a, b \in KmTexts}
        \cup {PairId(<<"0", "3", "F">>, <<"0", "5", "0", "0">>, <<"0", "6", "0", "0">>, "N"),
              PairId(<<"0", "1", "F">>, <<"5", "0", "0">>, <<"6", "0", "0">>, "S"),
              PairId(<<"0", "1", "F">>, <<"0", "5", "0", "0">>, <<"0", "6", "0", "0">>, "n"),
              PairId(<<"0", "1", "F">>, <<"0", "6", "0", "0">>, <<"0", "5", "0", "0">>, "S")
                  \o <<"x">>}

ExtractPairSet ==
    {[GoodPair EXCEPT !.ETagPairID = Elem(id)] : id \in PairIds}
        \cup {[GoodPair EXCEPT !.ETagPairID = Absent],
              [GoodPair EXCEPT !.ETagPairID = Elem(<<>>)]}

ExtractDocs ==
    {EtagDoc("schema", Elem(GoodStamp), ps) : ps \in SeqUpTo(ExtractPairSet, MaxPairs)}
        \cup {EtagDoc("other", Elem(GoodStamp), <<GoodPair>>), Malformed("ETag")}

InitExtract ==
    /\ fs = <<>>
    /\ dirs = {}
    /\ IdleFetch
    /\ IdlePool
    /\ folder = <<>>
    /\ listing = <<>>
    /\ ipc = "idle"
    /\ ipos = 0
    /\ vd_data = <<>>
    /\ total_rows = 0
    /\ all_data = <<>>
    /\ xml_file = GoodEtagName
    /\ xml_doc \in ExtractDocs
    /\ parsed = NotParsed
    /\ IdleTrain
    /\ IdleStore
    /\ IdleStatic

CallExtractEtagData ==
    /\ parsed = NotParsed
    /\ parsed' = [op |-> "extract_etag_data", rows |-> extract_etag_data(xml_doc)]
    /\ UNCHANGED parseFrame

NextExtract == CallExtractEtagData

SpecExtract == InitExtract /\ [][NextExtract]_vars

(***************************************************************************)
(* Claims about the fetch layer (SpecFetch)                                *)
(***************************************************************************)
\* The path the last call wrote to
CallPath == IF call.isTemp THEN ReplaceBaseDir(call.savePath) ELSE call.savePath

GzCallCompleted ==
    /\ call.n = 1
    /\ call.urlGz
    /\ call.savePath # None
    /\ call.resp.kind = "ok"

\* C1: a '.gz' URL whose body is not valid gzip still succeeds: download_file
\* returns the destination path and the destination file holds the raw body.
C1_FallbackKeepsRawBody ==
    (GzCallCompleted /\ ~GzipRead(call.resp.body).ok)
        => /\ ret = RetPath(CallPath)
           /\ Exists(fs, CallPath)
           /\ fs[CallPath] = call.resp.body

\* C2: after download_file returns for a '.gz' URL, on the decompression and
\* on the fallback path, the temporary '<dest>.gz' file does not exist.
C2_NoTempArtifact ==
    GzCallCompleted => ~Exists(fs, TempPath(CallPath))

\* C3: when the request times out or the response is non-2xx, download_file
\* returns None and creates or modifies no file and no directory.
C3_FailedRequestLeavesFs ==
    [][(call'.n = 1 /\ call'.resp.kind \in {"timeout", "http_error"})
          => (ret' = RetNone /\ fs' = fs /\ dirs' = dirs)]_vars

\* C3 witness: a non-2xx answer for a destination an earlier call wrote.
C3_Witness ==
    /\ call.n = 1
    /\ call.resp.kind = "http_error"
    /\ call.resp.body # <<>>
    /\ call.urlGz
    /\ call.savePath # None
    /\ ret = RetNone
    /\ Exists(fs, CallPath)
    /\ fs[CallPath] # <<>>

(***************************************************************************)
(* Claims about the per-date driver (SpecDate) and the pool (SpecPool)     *)
(***************************************************************************)
ThePlan == Plan(cfg.data_types)

Occurrences(q, x) == Cardinality({i \in DOMAIN q : q[i] = x})

RowsNeverUndone ==
    \A k \in DOMAIN db : k \in DOMAIN db' /\ db'[k] >= db[k]

SlicesOncePerRun ==
    \A d \in DateSet :
        /\ \A s \in Range(ThePlan) : Occurrences(log[d], s) <= 1
        /\ Len(log[d]) = task[d].pos
        /\ (task[d].pc = "done" =>
               \A s \in Range(ThePlan) : Occurrences(log[d], s) = 1)

\* C4: within one date's task every slice of a data type is attempted exactly
\* once; a failed slice is not attempted again, the slices after it are still
\* attempted, and rows committed by earlier slices stay.
C4_SliceFailureIsolated ==
    /\ []SlicesOncePerRun
    /\ [][RowsNeverUndone]_vars

\* C4 witness: a finished date whose plan had a loaded slice, then a slice
\* whose fetch failed, then another loaded slice.
C4_Witness ==
    \E d \in DateSet :
        /\ cfg.use_db
        /\ task[d].pc = "done"
        /\ \E i, j, k \in DOMAIN ThePlan :
              /\ i < j /\ j < k
              /\ RowCount(db, RowKey(d, ThePlan[i])) > 0
              /\ ~Exists(fs, SavePath(cfg.is_temp, d, ThePlan[j]))
              /\ RowCount(db, RowKey(d, ThePlan[k])) > 0

RECURSIVE SumFiles(_)
SumFiles(S) ==
    IF S = {} THEN 0
    ELSE LET d == CHOOSE x \in S : TRUE
         IN  task[d].nfiles + SumFiles(S \ {d})

CompletedDates == {d \in Range(dates) : task[d].pc = "done"}

\* Some step of the pool is possible: a running task has a slice left, or
\* one of the other steps is enabled
PoolCanStep ==
    \/ \E d \in Running : task[d].pos < Len(ThePlan)
    \/ ENABLED (\/ Submit
                \/ Return
                \/ \E d \in DateSet : StartTask(d) \/ TaskFinish(d) \/ Collect(d))

\* C5: an exception in one date's task aborts only that date; the function
\* returns, every submitted date has run to its end or raised, and the total
\* is the sum of the file counts of the dates that completed.
C5_PoolTotal ==
    /\ (mainPc = "returned" =>
          /\ \A d \in Range(dates) : task[d].pc \in {"done", "raised"}
          /\ total_files = SumFiles(CompletedDates))
    /\ (mainPc # "returned" => PoolCanStep)

\* C5 witness: the function returned after one date raised part-way and
\* another completed with files.
C5_Witness ==
    /\ mainPc = "returned"
    /\ \E d1, d2 \in Range(dates) :
          /\ task[d1].pc = "raised" /\ task[d1].nfiles > 0
          /\ task[d2].pc = "done" /\ task[d2].nfiles > 0
          /\ total_files = task[d2].nfiles

\* Every path a date's task may write: the destinations and their '.gz' files
TargetPaths(d) ==
    UNION {{SavePath(cfg.is_temp, d, s), TempPath(SavePath(cfg.is_temp, d, s))}
             : s \in Range(ThePlan)}

\* C6: the paths one date's task writes are never paths of another date's
\* task: distinct dates write disjoint destination and '.gz' paths.
C6_DisjointWrites ==
    \A d \in DateSet \ {lastWrite.date} :
        lastWrite.paths \cap TargetPaths(d) = {}

\* C6 witness: two dates running at once, both having written files.
C6_Witness ==
    /\ Cardinality(Running) = 2
    /\ \A d \in Running : task[d].nfiles > 0
    /\ lastWrite.paths # {}

(***************************************************************************)
(* Claims about the folder passes (SpecImport, SpecLoad) and the           *)
(* extraction functions (SpecParse)                                        *)
(***************************************************************************)
\* The slice of a detector file, as minutes of the day, from its name
FileSlice(name) ==
    LET keys == TimeKeys(name, VDLive_, 12, <<>>)
    IN  keys.hour_key * MinutesPerHour + keys.minute_key

\* C7: the directory importer processes the files of a date folder in
\* strictly increasing (hour, minute) order.
C7_ImportAscending ==
    \A i, j \in 1 .. ipos : i < j => FileSlice(listing[i]) < FileSlice(listing[j])

\* C8: every row parse_vd_xml or parse_etag_xml emits has hour_key in 0..23
\* and minute_key in 0..59.
C8_TimeKeysInRange ==
    parsed.op \in {"parse_vd_xml", "parse_etag_xml"} =>
        \A i \in DOMAIN parsed.rows :
            /\ parsed.rows[i].hour_key \in 0 .. 23
            /\ parsed.rows[i].minute_key \in 0 .. 59

\* The (station, lane) identifiers the specification lets through: the lanes
\* with LaneID, Speed and Occupancy of the stations with a VDID
RECURSIVE CompleteLanes(_, _)
CompleteLanes(lanes, vdid) ==
    IF lanes = <<>> THEN <<>>
    ELSE LET lane == Head(lanes)
         IN  (IF lane.LaneID.present /\ lane.Speed.present /\ lane.Occupancy.present
              THEN <<<<vdid, lane.LaneID.text>>>> ELSE <<>>)
                 \o CompleteLanes(Tail(lanes), vdid)

RECURSIVE CompleteStations(_)
CompleteStations(stations) ==
    IF stations = <<>> THEN <<>>
    ELSE (IF Head(stations).VDID.present
          THEN CompleteLanes(Head(stations).lanes, Head(stations).VDID.text) ELSE <<>>)
             \o CompleteStations(Tail(stations))

\* A document every text of which converts: none of its lanes makes float()
\* or int() raise
AllNumeric(stations) ==
    \A i \in DOMAIN stations : \A k \in DOMAIN stations[i].lanes :
        LET lane == stations[i].lanes[k]
        IN  \A e \in {lane.Speed, lane.Occupancy, lane.Volume} :
                HasText(e) => IntOf(e.text).ok

RowIds(rows) == [i \in DOMAIN rows |-> <<rows[i].vd_id, rows[i].lane_id>>]

\* C9: on a detector document with the schema namespace whose stations are
\* VDLive elements and whose texts all convert, parse_vd_xml and
\* process_vd_file_to_db emit one row for each complete lane of each station
\* that has an identifier, in document order, and nothing else.
C9_IncompleteSkipped ==
    ( /\ parsed.op \in {"parse_vd_xml", "process_vd_file_to_db"}
      /\ <<xml_file, xml_doc>> \in {GoodVdName} \X VdDocs
      /\ \A i \in DOMAIN xml_doc.stations : xml_doc.stations[i].tag = "VDLive"
      /\ AllNumeric(xml_doc.stations) )
        => RowIds(parsed.rows) = CompleteStations(xml_doc.stations)

\* What the processed files may have left in all_data: the rows of the files
\* that were parsed to the end, nothing for a file whose parsing raised
RECURSIVE RowsOfCleanFiles(_)
RowsOfCleanFiles(n) ==
    IF n = 0 THEN <<>>
    ELSE LET r == ParseXmlFile(folder[listing[n]])
         IN  RowsOfCleanFiles(n - 1) \o (IF r.raise THEN <<>> ELSE r.rows)

\* C10: a document whose parsing raises part-way contributes no row to
\* all_data, and the rows of the other documents are all there.
C10_FailedDocumentContributesNothing ==
    ipc \in {"files", "done"} => all_data = RowsOfCleanFiles(ipos)


(***************************************************************************)
(* Claims about namespaces (SpecParse)                                     *)
(***************************************************************************)
\* The same content, every element qualified under the schema namespace
Qualified(doc) == [doc EXCEPT !.ns = "schema"]

\* C11: an extractor applied to a document whose elements are all
\* unqualified yields the records it yields for the same content qualified
\* under the schema namespace (process_vd_file_to_db, parse_etag_xml).
C11_NamespaceTolerant ==
    (xml_doc.wellformed /\ xml_doc.ns = "none") =>
        /\ parsed.op = "process_vd_file_to_db" =>
              \E s \in Range(Plan({"VD"})) :
                  parsed.rows = process_vd_file_to_db(Qualified(xml_doc), DateFolder,
                                                      s.hour, s.minute)
        /\ parsed.op = "parse_etag_xml" =>
              parsed.rows = parse_etag_xml(xml_file, Qualified(xml_doc), DateKey(DateFolder))

(***************************************************************************)
(* Claims about the loader's pair observations (SpecPairs)                 *)
(***************************************************************************)
\* The flows that count: VehicleCount > 0 and TravelTime > 0
Counted(flows) ==
    SelectSeq(flows, LAMBDA f : /\ IntOf(f.VehicleCount.text).val > 0
                                /\ IntOf(f.TravelTime.text).val > 0)

\* Sum over the flows of VehicleCount, or of field x VehicleCount
RECURSIVE WeightedSum(_, _)
WeightedSum(flows, field) ==
    IF flows = <<>> THEN 0
    ELSE LET n == IntOf(Head(flows).VehicleCount.text).val
             w == IF field = "VehicleCount" THEN 1 ELSE IntOf(Head(flows)[field].text).val
         IN  w * n + WeightedSum(Tail(flows), field)

\* The one pair of a document of FlowDocs with only the given flows
OnlyFlows(doc, flows) ==
    [doc EXCEPT !.pairs = <<[doc.pairs[1] EXCEPT !.Flows.flows = flows]>>]

\* C12: parse_xml_files combines the Flow elements of a pair so that flow is
\* the sum of VehicleCount over the flows with VehicleCount > 0 and
\* TravelTime > 0, travel_time x flow is the sum of TravelTime x VehicleCount
\* and speed x flow the sum of SpaceMeanSpeed x VehicleCount over the same
\* flows; the other flows change nothing, and with no such flow travel time
\* and speed are exactly 0.
C12_FlowWeighting ==
    (parsed.op = "parse_xml_files" /\ xml_doc \in FlowDocs) =>
        LET counted == Counted(xml_doc.pairs[1].Flows.flows)
        IN  /\ parsed.rows # <<>>
            /\ \A i \in DOMAIN parsed.rows :
                  LET row == parsed.rows[i]
                  IN  /\ row.flow = WeightedSum(counted, "VehicleCount")
                      /\ row.travel_time.num * row.flow
                            = WeightedSum(counted, "TravelTime") * row.travel_time.den
                      /\ row.speed.num * row.flow
                            = WeightedSum(counted, "SpaceMeanSpeed") * row.speed.den
                      /\ row.travel_time.den > 0 /\ row.speed.den > 0
                      /\ counted = <<>> => row.travel_time.num = 0 /\ row.speed.num = 0
            /\ parsed.rows = ParseXmlFile(OnlyFlows(xml_doc, counted)).rows

\* A pair with one flow that counts and one that does not has been combined
C12_Witness ==
    /\ parsed.op = "parse_xml_files"
    /\ xml_doc \in FlowDocs
    /\ Len(xml_doc.pairs[1].Flows.flows) = 2
    /\ Len(Counted(xml_doc.pairs[1].Flows.flows)) = 1
    /\ parsed.rows[1].flow = 2
    /\ parsed.rows[1].travel_time = [num |-> 180, den |-> 2]

\* The pairs of a document that parse_xml_files parsed: those with an
\* identifier '<start>-<end>', up to the first pair whose body raised
RECURSIVE ParsedPairs(_)
ParsedPairs(pairs) ==
    IF pairs = <<>> THEN <<>>
    ELSE IF ~Contains(Head(pairs).ETagPairID.text, <<"-">>) THEN ParsedPairs(Tail(pairs))
    ELSE IF ~Head(pairs).Flows.present THEN <<>>
    ELSE <<Head(pairs)>> \o ParsedPairs(Tail(pairs))

\* C14: every parsed pair observation '<start>-<end>' yields exactly two
\* station records, the first keyed by the start station and the second by
\* the end station, equal in time bucket, flow, speed and travel time.
C14_TwoRecordsPerPair ==
    (parsed.op = "parse_xml_files" /\ xml_doc \in PairDocs) =>
        LET pairs == ParsedPairs(xml_doc.pairs)
        IN  /\ Len(parsed.rows) = 2 * Len(pairs)
            /\ \A k \in DOMAIN pairs :
                  LET id == pairs[k].ETagPairID.text
                      a == parsed.rows[2 * k - 1]
                      b == parsed.rows[2 * k]
                  IN  /\ a.etag_id \o <<"-">> \o b.etag_id = id
                      /\ a.etag_id # <<>> /\ b.etag_id # <<>>
                      /\ [b EXCEPT !.etag_id = a.etag_id] = a

\* A document with the pairs A-B and C-D has been parsed into four records
C14_Witness ==
    /\ parsed.op = "parse_xml_files"
    /\ Len(ParsedPairs(xml_doc.pairs)) = 2
    /\ Len(parsed.rows) = 4
    /\ parsed.rows[1].etag_id = <<"A">> /\ parsed.rows[2].etag_id = <<"B">>
    /\ parsed.rows[3].etag_id = <<"C">> /\ parsed.rows[4].etag_id = <<"D">>

(***************************************************************************)
(* Claims about the training-set builder (SpecTrain)                       *)
(***************************************************************************)
RECURSIVE SumFlow(_)
SumFlow(rows) == IF rows = <<>> THEN 0 ELSE Head(rows).flow + SumFlow(Tail(rows))

\* The observations that resolved to the station in the time bucket
Contributing(station, time) ==
    SelectSeq(flow_data, LAMBDA r : r.station_id = station /\ DateTimeOf(r) = time)

\* C13: the output of create_train_data has one record per (station, time
\* bucket), and its flow is the sum of the vehicle counts of all the
\* observations that resolved to that station in that bucket.
C13_BucketFlowIsSum ==
    tpc = "done" =>
        /\ \A i, j \in DOMAIN result_df :
              (/\ result_df[i].station_id = result_df[j].station_id
               /\ DateTimeOf(result_df[i]) = DateTimeOf(result_df[j])) => i = j
        /\ \A i \in DOMAIN result_df :
              result_df[i].flow
                  = SumFlow(Contributing(result_df[i].station_id, DateTimeOf(result_df[i])))

\* C15: once the index is built, the native identifier of every reference
\* row and every alternate encoding generated from that row resolve to
\* that row's station index.
C15_EncodingsResolveToOwnRow ==
    tpc \in {"ready", "done"} =>
        \A i \in DOMAIN etag_info :
            \A k \in DOMAIN RowKeys(etag_info[i]) :
                DictGet(etag_dict, RowKeys(etag_info[i])[k]) = i - 1

\* C16: while the index is built, an entry that belongs to one reference row
\* is never replaced by another row's entry without the collision being
\* flagged: the step that replaces it prints or records something.
C16_CollisionFlagged ==
    [][(\E i \in DOMAIN etag_dict : etag_dict'[i].index # etag_dict[i].index)
           => printed' # printed]_vars

\* The two-stage lookup of one identifier: the exact match in the index,
\* else the match of its alphanumeric characters against those of the
\* indexed identifiers
TwoStage(id) ==
    IF DictGet(etag_dict, id) # -1 THEN DictGet(etag_dict, id)
    ELSE DictGet(Simplified(etag_dict, <<>>), AlnumOnly(id))

\* C17: every observation is resolved on its own by the two-stage lookup,
\* so an identifier that matches only after reduction is resolved whether
\* or not other observations of the run matched exactly.
C17_TwoStagePerObservation ==
    tpc = "done" =>
        \A i \in DOMAIN flow_data : flow_data[i].station_id = TwoStage(flow_data[i].etag_id)

\* The warning of create_train_data that counts the unknown identifiers
UnknownWarnings == SelectSeq(printed, LAMBDA m : m.msg = "unknown_etags")

\* C18: no unresolved observation (station index -1) appears in the output
\* of create_train_data: every output record carries the station index of a
\* resolved observation; and when an observation is unresolved, a count of
\* unresolved identifiers has been printed.
C18_UnresolvedDropped ==
    tpc = "done" =>
        /\ \A i \in DOMAIN result_df :
              /\ result_df[i].station_id # -1
              /\ \E j \in DOMAIN flow_data :
                    flow_data[j].station_id = result_df[i].station_id
        /\ (\E j \in DOMAIN flow_data : flow_data[j].station_id = -1) =>
              (Len(UnknownWarnings) = 1 /\ UnknownWarnings[1].n >= 1)

\* A run with resolved and unresolved observations has written its output
C18_Witness ==
    /\ tpc = "done"
    /\ result_df # <<>>
    /\ \E j \in DOMAIN flow_data : flow_data[j].station_id = -1
    /\ UnknownWarnings # <<>>

\* The count of unknown identifiers create_train_data reported
ReportedUnknown == IF UnknownWarnings = <<>> THEN 0 ELSE UnknownWarnings[1].n

\* C19: an identifier that matches no reference row, as it is or reduced to
\* its alphanumeric characters, resolves to the sentinel -1, and the count
\* of unknown identifiers that create_train_data reports is the number of
\* distinct identifiers among the observations that are unresolved.
C19_UnknownCount ==
    (tpc = "done" /\ flow_data # <<>>) =>
        /\ \A i \in DOMAIN flow_data :
              TwoStage(flow_data[i].etag_id) = -1 => flow_data[i].station_id = -1
        /\ ReportedUnknown
              = Cardinality({flow_data[i].etag_id :
                                i \in {j \in DOMAIN flow_data : flow_data[j].station_id = -1}})

\* Row a comes before row b by date, then hour, then minute, then station
Before(a, b) ==
    \/ a.date < b.date
    \/ a.date = b.date /\ a.hour < b.hour
    \/ a.date = b.date /\ a.hour = b.hour /\ a.minute < b.minute
    \/ a.date = b.date /\ a.hour = b.hour /\ a.minute = b.minute
          /\ a.station_id < b.station_id

\* C20: the output of create_train_data is in ascending order of (date,
\* hour, minute, station index): each record comes before the next one, so
\* the order of the records is fixed by their keys whatever the order of
\* the input.
C20_OutputSorted ==
    tpc = "done" =>
        \A i \in DOMAIN result_df :
            i < Len(result_df) => Before(result_df[i], result_df[i + 1])

\* Observations read out of time order have been written as an output of
\* two stations in two time buckets
C20_Witness ==
    /\ tpc = "done"
    /\ Len(result_df) >= 4
    /\ \E i, j \in DOMAIN flow_data :
          /\ i < j
          /\ flow_data[i].station_id # -1 /\ flow_data[j].station_id # -1
          /\ flow_data[j].day < flow_data[i].day
          /\ flow_data[j].station_id < flow_data[i].station_id
(***************************************************************************)
(* Claims about temporary files (SpecDate)                                 *)
(***************************************************************************)
\* The files of date d that a run left under the temporary directory
TempFilesOf(d) == {p \in DOMAIN fs : p[1] = "temp" /\ p[3] = d}

\* C26: after download_all_data_for_date has returned from a run with
\* is_temp=True and the database enabled, none of the files it downloaded
\* for that date remains under the temporary directory.
C26_TempFilesRemoved ==
    \A d \in DateSet :
        (cfg.is_temp /\ cfg.use_db /\ task[d].pc = "done") => TempFilesOf(d) = {}

(***************************************************************************)
(* Claims about the store operations (SpecStore)                           *)
(***************************************************************************)
\* The operations that load a batch
LoadOps ==
    {"process_vd_file_to_db", "process_etag_file_to_db", "bulk_insert_vd_data",
     "bulk_insert_etag_data"}

\* C21: loading an empty record batch (bulk_insert_vd_data or
\* bulk_insert_etag_data with an empty list, process_vd_file_to_db or
\* process_etag_file_to_db on a document that yields no records) returns 0,
\* opens no connection and writes no row.
C21_EmptyLoadNoStoreOperation ==
    [][(load_ret'.op \in LoadOps /\ load_ret'.batch = <<>>) =>
          /\ load_ret'.ret = 0
          /\ load_ret'.opened = 0
          /\ conns' = conns
          /\ vd_data' = vd_data
          /\ etag_data' = etag_data]_vars

\* C21 witness: the collector was handed a document without records after
\* rows had been loaded
C21_Witness ==
    /\ cfg.use_db
    /\ load_ret.op = "process_vd_file_to_db"
    /\ load_ret.batch = <<>>
    /\ vd_data # <<>>

IsPrefix(s, t) == Len(s) <= Len(t) /\ SubSeq(t, 1, Len(s)) = s

\* The table an operation loads into
TableOf(op, vd, etag) ==
    IF op \in {"process_vd_file_to_db", "bulk_insert_vd_data"} THEN vd ELSE etag

\* C22: the loaders are append-only: no load updates or deletes a row, and
\* loading the same non-empty batch of n records a second time leaves the
\* table with the batch at its end twice, 2n rows more than before the first.
C22_AppendOnly ==
    [][/\ IsPrefix(vd_data, vd_data')
       /\ IsPrefix(etag_data, etag_data')
       /\ (/\ load_ret.op \in LoadOps
           /\ load_ret'.op = load_ret.op
           /\ load_ret.batch # <<>>
           /\ load_ret'.batch = load_ret.batch
           /\ load_ret.ret = Len(load_ret.batch)
           /\ load_ret'.ret = Len(load_ret.batch)
           /\ <<vd_data', etag_data'>> # <<vd_data, etag_data>>)
          => LET n == Len(load_ret.batch)
                 before == TableOf(load_ret.op, vd_data, etag_data)
                 after == TableOf(load_ret.op, vd_data', etag_data')
             IN  /\ Len(before) >= n
                 /\ after = SubSeq(before, 1, Len(before) - n)
                               \o load_ret.batch \o load_ret.batch]_vars

\* C22 witness: the importer has loaded the same batch twice
C22_Witness ==
    /\ load_ret.op = "bulk_insert_vd_data"
    /\ load_ret.batch # <<>>
    /\ load_ret.ret = Len(load_ret.batch)
    /\ vd_data = load_ret.batch \o load_ret.batch

\* What a successful load of no records returns
EmptyLoadResult == BulkInsert(<<>>, <<>>, TRUE).rows_inserted

\* C23: when inserting a batch fails, no row of the batch is persisted, the
\* rows of earlier batches are unchanged, and the loader's result carries the
\* number of records of the batch and differs from the result of a
\* successful load of no records.
C23_FailureSurfaced ==
    /\ [][(load_ret'.op \in LoadOps /\ load_ret'.outcome # "ok") =>
             (vd_data' = vd_data /\ etag_data' = etag_data)]_vars
    /\ []((load_ret.op \in LoadOps /\ load_ret.outcome # "ok") =>
             (load_ret.ret # EmptyLoadResult /\ load_ret.ret = Len(load_ret.batch)))

\* C27: a connection that import_all_data, process_vd_file_to_db or
\* process_etag_file_to_db opened is closed when the operation has returned:
\* after a committed insert, after a failed and rolled-back insert, after a
\* table-creation failure and after an exception during the import.
C27_ConnectionsClosed == ipc \in {"idle", "new", "returned"} => conns = 0

\* C27 witness: the collector's insert failed and was rolled back
C27_Witness ==
    /\ load_ret.op = "process_etag_file_to_db"
    /\ load_ret.outcome = "insert_failed"
    /\ load_ret.opened = 1
    /\ conns = 0

(***************************************************************************)
(* Claims about a run whose store cannot be reached (SpecRun)              *)
(***************************************************************************)
\* C24: if the store cannot be reached when a run starts (init_database of a
\* collector constructed with use_db=True fails), the run aborts: no slice is
\* fetched, parsed or loaded afterwards.
C24_AbortOnUnreachableStore ==
    init_db = "failed" =>
        /\ \A d \in DateSet : log[d] = <<>>
        /\ fs = <<>>
        /\ db = <<>>

(***************************************************************************)
(* Claims about the failure summary of a run (SpecPool)                    *)
(***************************************************************************)
\* How many slice fetches of date d failed: the slices attempted that left
\* no file
FailedFetches(d) == Len(log[d]) - task[d].nfiles

RECURSIVE SumFailedFetches(_)
SumFailedFetches(S) ==
    IF S = {} THEN 0
    ELSE LET d == CHOOSE x \in S : TRUE
         IN  FailedFetches(d) + SumFailedFetches(S \ {d})

\* The failures a run of download_multiple_dates absorbed, by category
FailureCounts ==
    [failed_fetches |-> SumFailedFetches(Range(dates)),
     failed_dates |-> Cardinality({d \in Range(dates) : task[d].pc = "raised"})]

\* C25: when a run of download_multiple_dates ends in which failures were
\* absorbed, its result reports one count per failure category, equal to the
\* number of failures of that category that occurred during the run.
C25_FailureSummary ==
    (mainPc = "returned" /\ \E c \in DOMAIN FailureCounts : FailureCounts[c] > 0) =>
        \A c \in DOMAIN FailureCounts :
            c \in DOMAIN RunResult /\ RunResult[c] = FailureCounts[c]

(***************************************************************************)
(* Claims about the static resources (SpecStatic)                          *)
(***************************************************************************)
\* The resource each key of the returned mapping stands for
KeyResource ==
    [vd |-> "VD_0000", etag |-> "ETag_0000", etag_pair |-> "ETagPair_0000",
     section |-> "Section_0000", section_shape |-> "SectionShape_0000",
     congestion |-> "CongestionLevel_0000", cctv |-> "CCTV_0000"]

\* The file a resource is saved as
ResourceFile(name) ==
    CASE name = "VD_0000" -> "VD_0000.xml"
      [] name = "ETag_0000" -> "ETag_0000.xml"
      [] name = "ETagPair_0000" -> "ETagPair_0000.xml"
      [] name = "Section_0000" -> "Section_0000.xml"
      [] name = "SectionShape_0000" -> "SectionShape_0000.xml"
      [] name = "CongestionLevel_0000" -> "CongestionLevel_0000.xml"
      [] name = "CCTV_0000" -> "CCTV_0000.xml"

\* C28: every key of the mapping download_static_data returned refers to the
\* file fetched from the key's own resource and saved at the key's own path
\* (so 'section_shape' is present only if SectionShape_0000 was fetched, and
\* maps to the SectionShape_0000.xml path), and each resource is requested
\* exactly once per call.
C28_StaticKeysOwnFile ==
    requests # <<>> =>
        /\ \A key \in DOMAIN static_files :
              /\ KeyResource[key] \in Range(requests)
              /\ static_files[key][4] = ResourceFile(KeyResource[key])
              /\ Exists(fs, static_files[key])
        /\ \A i, j \in DOMAIN requests : i # j => requests[i] # requests[j]

(***************************************************************************)
(* Claims about extract_etag_data (SpecExtract)                            *)
(***************************************************************************)
\* An identifier of the form 01Fdddd[NS]-01Fdddd[NS], possibly followed by
\* more text
Is01FPair(t) ==
    /\ Len(t) >= 17
    /\ SubSeq(t, 1, 3) = <<"0", "1", "F">>
    /\ SubSeq(t, 10, 12) = <<"0", "1", "F">>
    /\ \A i \in (4 .. 7) \cup (13 .. 16) : t[i] \in Digits
    /\ t[8] \in {"N", "S"}
    /\ t[9] = "-"
    /\ t[17] \in {"N", "S"}

StartMileage(t) == IntOf(SubSeq(t, 4, 7)).val

EndMileage(t) == IntOf(SubSeq(t, 13, 16)).val

\* The elements that qualify: pattern matched and both mileages in [447, 1022]
Qualifies(pair) ==
    /\ pair.ETagPairID.present
    /\ Is01FPair(pair.ETagPairID.text)
    /\ StartMileage(pair.ETagPairID.text) \in 447 .. 1022
    /\ EndMileage(pair.ETagPairID.text) \in 447 .. 1022

Ascends(pair) ==
    Qualifies(pair) /\ StartMileage(pair.ETagPairID.text) < EndMileage(pair.ETagPairID.text)

Descends(pair) ==
    Qualifies(pair) /\ StartMileage(pair.ETagPairID.text) > EndMileage(pair.ETagPairID.text)

RECURSIVE TextsOf(_)
TextsOf(pairs) ==
    IF pairs = <<>> THEN <<>>
    ELSE <<[tag |-> "ETagPairLive", ETagPairID |-> Head(pairs).ETagPairID.text]>>
             \o TextsOf(Tail(pairs))

ResolvedRows == SelectSeq(flow_data, LAMBDA r : r.station_id # -1)

ResolvedTimes == {DateTimeOf(r) : r \in Range(ResolvedRows)}

ResolvedStations == {r.station_id : r \in Range(ResolvedRows)}

\* The output rows of one time point and station
Cells(time, station) ==
    {i \in DOMAIN result_df :
        /\ <<result_df[i].day, result_df[i].hour, result_df[i].minute>> = time
        /\ result_df[i].station_id = station}

\* C29: the training table is a complete time-by-station grid: for every
\* distinct time point of the resolved observations and every resolved
\* station there is exactly one output row, with flow 0 when the station has
\* no observation at that time point.
C29_CompleteGrid ==
    (tpc = "done" /\ ResolvedRows # <<>>) =>
        \A time \in ResolvedTimes, station \in ResolvedStations :
            /\ Cardinality(Cells(time, station)) = 1
            /\ (~\E r \in Range(ResolvedRows) :
                    DateTimeOf(r) = time /\ r.station_id = station)
                 => \A i \in Cells(time, station) : result_df[i].flow = 0

====
